---- MODULE Spec2Model ----
(***************************************************************************)
(* Interruption controller of karpenter-provider-aws                       *)
(* (pkg/controllers/interruption/controller.go).                           *)
(*                                                                         *)
(* One Reconcile cycle: receive a batch of SQS messages, list NodeClaims   *)
(* and Nodes into two instance-id indexes, fan the messages out to         *)
(* concurrent handlers (workqueue.ParallelizeUntil), combine the errors.   *)
(* Every blocking call of a handler (cache write, kube create, kube        *)
(* delete, queue delete) is one step, so handlers interleave there.        *)
(***************************************************************************)
EXTENDS Integers, Sequences, FiniteSets, TLC

\* ------------------------------------------------------------------ bounds

\* Largest number of messages in the queue at the start of a cycle.
MaxBatch == 2

\* ------------------------------------------------------- program constants

\* workqueue.ParallelizeUntil(ctx, 10, ...): the width of the fan-out.
Workers == 10

CordonAndDrain == "CordonAndDrain"
NoAction == "NoAction"

ScheduledChangeKind == "ScheduledChangeKind"
SpotInterruptionKind == "SpotInterruptionKind"
RebalanceRecommendationKind == "RebalanceRecommendationKind"
StateChangeKind == "StateChangeKind"
NoOpKind == "NoOpKind"

CapacityTypeSpot == "spot"
terminationReasonLabel == "interruption"

\* ------------------------------------------------------------ input space

\* A provider id is modelled as the tuple of its parts: <<>> is the empty
\* string, <<scheme, zone, instance id>> the string scheme:///zone/id.
ProviderID(id) == <<"aws", "us-east-1a", id>>

\* utils.ParseInstanceID: the instance id of a provider id of the form
\* aws:///<zone>/<id>; an error for any other string.
ParseInstanceID(p) ==
    IF Len(p) = 3 /\ p[1] = "aws"
    THEN [err |-> FALSE, id |-> p[3]]
    ELSE [err |-> TRUE, id |-> ""]

\* The raw bodies a queue message can carry: raw.Body == nil (absent), a
\* string that is not well-formed JSON (the empty string among them), or a
\* well-formed event envelope with its detail-type discriminator.
Body(absent, text, detailType, ids, state) ==
    [absent |-> absent, text |-> text, detailType |-> detailType,
     ids |-> ids, state |-> state]

NilBody == Body(TRUE, "", "", <<>>, "")

Text(text) == Body(FALSE, text, "", <<>>, "")

Event(detailType, ids, state) == Body(FALSE, "json", detailType, ids, state)

RawBodies ==
    { NilBody, Text("not-json"),
      Event("EC2 Spot Instance Interruption Warning", <<"i-1">>, ""),
      Event("EC2 Spot Instance Interruption Warning", <<"i-2">>, ""),
      Event("AWS Health Event", <<"i-1", "i-2">>, ""),
      Event("EC2 Instance Rebalance Recommendation", <<"i-1">>, ""),
      Event("EC2 Instance State-change Notification", <<"i-1">>, "stopping"),
      Event("EC2 Instance State-change Notification", <<"i-1">>, "terminated"),
      Event("Unrecognized Detail Type", <<"i-1">>, "") }

KindOfDetailType(dt) ==
    CASE dt = "EC2 Spot Instance Interruption Warning" -> SpotInterruptionKind
      [] dt = "AWS Health Event" -> ScheduledChangeKind
      [] dt = "EC2 Instance Rebalance Recommendation" -> RebalanceRecommendationKind
      [] dt = "EC2 Instance State-change Notification" -> StateChangeKind
      [] OTHER -> NoOpKind

NoOpMessage == [kind |-> NoOpKind, ids |-> <<>>, state |-> ""]

\* A parser that fails when no sub-parser claims the detail type.
ParseRejectingUnclaimed(body) ==
    IF body.text # "json" \/ KindOfDetailType(body.detailType) = NoOpKind
    THEN [err |-> TRUE, msg |-> NoOpMessage]
    ELSE [err |-> FALSE,
          msg |-> [kind |-> KindOfDetailType(body.detailType),
                   ids |-> body.ids, state |-> body.state]]

\* EventParser.Parse: an empty or non-JSON body is an error; a well-formed
\* body of an unrecognized detail type is a NoOp message; otherwise the
\* typed message of the sub-parser that claims the detail type.
Parse(body) ==
    IF body.text # "json"
    THEN [err |-> TRUE, msg |-> NoOpMessage]
    ELSE IF KindOfDetailType(body.detailType) = NoOpKind
         THEN [err |-> FALSE, msg |-> NoOpMessage]
         ELSE [err |-> FALSE,
               msg |-> [kind |-> KindOfDetailType(body.detailType),
                        ids |-> body.ids, state |-> body.state]]

\* parseMessage without its check of a nil body: the message counts as parsed.
parseMessageNoNilCheck(raw) ==
    IF raw.absent
    THEN [err |-> FALSE, msg |-> NoOpMessage]
    ELSE Parse(raw)

\* Controller.parseMessage
parseMessage(raw) ==
    IF raw.absent
    THEN [err |-> TRUE, msg |-> NoOpMessage]
    ELSE Parse(raw)

\* actionForMessage taking a state change for an advisory.
actionForMessageIgnoringStateChange(msg) ==
    IF msg.kind \in {ScheduledChangeKind, SpotInterruptionKind}
    THEN CordonAndDrain
    ELSE NoAction

\* actionForMessage
actionForMessage(msg) ==
    IF msg.kind \in {ScheduledChangeKind, SpotInterruptionKind, StateChangeKind}
    THEN CordonAndDrain
    ELSE NoAction

\* The NodeClaim objects of the client's cache. nc1 is either not yet bound
\* to an instance or bound to i-1, with any of its zone and instance-type
\* labels and its deletion timestamp set or not; nc2 is bound to i-2.
NodeClaimObject(name, pid, zone, itype, ctype, deleting) ==
    [name |-> name,
     generateName |-> "default-",
     annotations |-> "annotations-of-" \o name,
     labels |-> [zone |-> zone, instanceType |-> itype,
                 capacityType |-> ctype, nodePool |-> "default"],
     ownerReferences |-> "owners-of-" \o name,
     spec |-> "spec-of-" \o name,
     status |-> [providerID |-> pid],
     deletionTimestamp |-> deleting]

FirstNodeClaims ==
    { NodeClaimObject("nc1", ProviderID("i-1"), zone, itype, "spot", deleting) :
        zone \in {"", "us-east-1a"},
        itype \in {"", "m5.large"},
        deleting \in BOOLEAN }
    \cup { NodeClaimObject("nc1", <<>>, "us-east-1a", "m5.large", "spot", FALSE) }

SecondNodeClaim ==
    NodeClaimObject("nc2", ProviderID("i-2"), "us-east-1b", "c5.large", "on-demand", FALSE)

NodeObject(name, pid) == [name |-> name, spec |-> [providerID |-> pid]]

NodeLists == { <<NodeObject("n1", pid)>> : pid \in {<<>>, ProviderID("i-1")} }

\* What the API server holds for a listed NodeClaim: the cache may be stale.
LiveStates(nc) == IF nc.deletionTimestamp THEN {"deleting"} ELSE {"live", "gone"}

RECURSIVE SeqsUpTo(_, _)
SeqsUpTo(S, n) ==
    IF n = 0 THEN {<<>>}
    ELSE LET shorter == SeqsUpTo(S, n - 1)
         IN shorter \cup { Append(s, x) : s \in {t \in shorter : Len(t) = n - 1}, x \in S }

\* ------------------------------------------------------------------ state

VARIABLES
    pc,                        \* where Reconcile is
    bodies,                    \* the raw body of every message of the queue
    queue,                     \* the messages (indexes of bodies) still in the queue
    sqsMessages,               \* the batch received by this cycle
    cachedNodeClaims,          \* the NodeClaims kubeClient.List returns
    cachedNodes,               \* the Nodes kubeClient.List returns
    apiServer,                 \* NodeClaim name -> live | deleting | gone
    nodeClaimInstanceIDMap,    \* instance id -> index into cachedNodeClaims
    nodeInstanceIDMap,         \* instance id -> index into cachedNodes
    nextPiece,                 \* the next piece of toProcess
    handler,                   \* per message: the position of its handler
    errs,                      \* per message: its slot of errs
    trace,                     \* per message: the collaborator calls its handler made
    unavailableOfferingsCache, \* offerings marked unavailable
    created,                   \* the NodeClaims created on the API server
    deletedMessages,           \* the deletedMessages counter
    nodeClaimsTerminated,      \* metrics.NodeClaimsTerminatedCounter
    calls,                     \* the collaborator calls Reconcile itself made
    cancelled,                 \* ctx.Done() is closed
    result,                    \* what Reconcile returned
    request,                   \* instancetype: the arguments of a pods computation
    quantities                 \* instancetype: the quantities computed from them

vars == <<pc, bodies, queue, sqsMessages, cachedNodeClaims, cachedNodes, apiServer,
          nodeClaimInstanceIDMap, nodeInstanceIDMap, nextPiece, handler, errs, trace,
          unavailableOfferingsCache, created, deletedMessages, nodeClaimsTerminated,
          calls, cancelled, result, request, quantities>>

\* The state of the instance-type provider, which the controller never
\* touches.
instancetype == <<request, quantities>>

inputs == <<bodies, cachedNodeClaims, cachedNodes, instancetype>>

Pieces == 1..Len(sqsMessages)

EmptyMap == [x \in {} |-> 0]

IdleHandler == [pc |-> "queued", msg |-> NoOpMessage, k |-> 0, err |-> FALSE]

\* No pods computation is asked for.
NoRequest == [asked |-> FALSE]

NoQuantities == [x \in {} |-> 0]

Init ==
    /\ pc = "receive"
    /\ bodies \in SeqsUpTo(RawBodies, MaxBatch)
    /\ queue = 1..Len(bodies)
    /\ sqsMessages = <<>>
    /\ \E first \in FirstNodeClaims : cachedNodeClaims = <<first, SecondNodeClaim>>
    /\ cachedNodes \in NodeLists
    /\ apiServer \in [{"nc1", "nc2"} -> {"live", "deleting", "gone"}]
    /\ \A i \in 1..Len(cachedNodeClaims) :
         apiServer[cachedNodeClaims[i].name] \in LiveStates(cachedNodeClaims[i])
    /\ apiServer["nc2"] = "live"
    /\ nodeClaimInstanceIDMap = EmptyMap
    /\ nodeInstanceIDMap = EmptyMap
    /\ nextPiece = 1
    /\ handler = <<>>
    /\ errs = <<>>
    /\ trace = <<>>
    /\ unavailableOfferingsCache = {}
    /\ created = <<>>
    /\ deletedMessages = 0
    /\ nodeClaimsTerminated = 0
    /\ calls = <<>>
    /\ cancelled = FALSE
    /\ result = "pending"
    /\ request = NoRequest
    /\ quantities = NoQuantities

\* ------------------------------------------------------- decision helpers

\* One collaborator call: the operation, its argument, the NodeClaim it is
\* about ("" when none) and its result (for Publish, the Node's name).
Call(op, arg, on, res) == [op |-> op, arg |-> arg, on |-> on, res |-> res]

\* deleteNodeClaim without its check of the deletion timestamp.
DeletionTimestampNeverSet(nc) == TRUE

\* metav1.Time.IsZero on the NodeClaim of the index.
DeletionTimestampIsZero(nc) == ~nc.deletionTimestamp

\* deleteNodeClaim returning the error of kubeClient.Delete as it is.
IgnoreNothing(res) == IF res = "ok" THEN "nil" ELSE res

\* client.IgnoreNotFound on the result of kubeClient.Delete: the error the
\* handler returns.
IgnoreNotFound(res) == IF res \in {"ok", "NotFound"} THEN "nil" ELSE res

\* What kubeClient.Delete can answer for a NodeClaim of the given live state.
DeleteResults(live) == IF live = "gone" THEN {"NotFound", "error"} ELSE {"ok", "error"}

\* A parse failure that returns without deleting the message.
AfterParseKeepsMessage(parsed) ==
    IF parsed.err THEN "done" ELSE "handleMessage"

\* Reconcile lines 106-117: the handler's next position once parseMessage
\* has returned.
AfterParse(parsed) ==
    IF parsed.err THEN "deleteMessage" ELSE "handleMessage"

\* The message deleted whatever handleMessage returned.
AfterHandleMessageAlwaysDeletes(err) == "deleteMessage"

\* The message deleted after a failed handleMessage and kept after a
\* successful one.
AfterHandleMessageDeletesOnError(err) ==
    IF err THEN "deleteMessage" ELSE "done"

\* The message never deleted after handleMessage.
AfterHandleMessageNeverDeletes(err) == "done"

\* Reconcile lines 113-117: the handler's next position once handleMessage
\* has returned.
AfterHandleMessage(err) ==
    IF err THEN "done" ELSE "deleteMessage"

\* handleNodeClaim without the spot branch of lines 195-205.
AfterNotifyWithoutSpotBranch(msg) ==
    IF actionForMessage(msg) # NoAction THEN "deleteNodeClaim" ELSE "nextInstance"

\* handleNodeClaim deleting the NodeClaim whatever the action.
AfterNotifyAlwaysDeletes(msg) ==
    IF msg.kind = SpotInterruptionKind THEN "markUnavailable" ELSE "deleteNodeClaim"

\* handleNodeClaim lines 195-209: the first blocking step after the
\* notification.
AfterNotify(msg) ==
    IF msg.kind = SpotInterruptionKind THEN "markUnavailable"
    ELSE IF actionForMessage(msg) # NoAction THEN "deleteNodeClaim"
    ELSE "nextInstance"

\* handleNodeClaim going through its spot branch again after the creation.
AfterCreateRepeatsSpotBranch(msg) == "markUnavailable"

\* handleNodeClaim lines 206-209 after the replacement was attempted.
AfterCreate(msg) ==
    IF actionForMessage(msg) # NoAction THEN "deleteNodeClaim" ELSE "nextInstance"

\* notifyForMessage publishing Terminating for every state change.
notifyForMessageIgnoringState(msg) ==
    CASE msg.kind = RebalanceRecommendationKind -> <<"RebalanceRecommendation">>
      [] msg.kind = ScheduledChangeKind -> <<"Unhealthy">>
      [] msg.kind = SpotInterruptionKind -> <<"SpotInterrupted">>
      [] msg.kind = StateChangeKind -> <<"Terminating">>
      [] OTHER -> <<>>

\* notifyForMessage: the event published for a message.
notifyForMessage(msg) ==
    CASE msg.kind = RebalanceRecommendationKind -> <<"RebalanceRecommendation">>
      [] msg.kind = ScheduledChangeKind -> <<"Unhealthy">>
      [] msg.kind = SpotInterruptionKind -> <<"SpotInterrupted">>
      [] msg.kind = StateChangeKind ->
           IF msg.state \in {"stopping", "stopped"}
           THEN <<"Stopping">> ELSE <<"Terminating">>
      [] OTHER -> <<>>

\* The replacement made as a full copy of the interrupted NodeClaim.
createNodeClaimFullCopy(oldNodeClaim) == oldNodeClaim

\* createNodeClaim: the object handed to kubeClient.Create.
createNodeClaim(oldNodeClaim) ==
    [name |-> "",
     generateName |-> oldNodeClaim.generateName,
     annotations |-> oldNodeClaim.annotations,
     labels |-> oldNodeClaim.labels,
     ownerReferences |-> oldNodeClaim.ownerReferences,
     spec |-> oldNodeClaim.spec,
     status |-> [providerID |-> <<>>],
     deletionTimestamp |-> FALSE]

\* Reconcile dropping the combined error.
CombineDropsErrors(es) == "nil"

\* multierr.Combine(errs...) of Reconcile line 119.
Combine(es) ==
    IF \E i \in DOMAIN es : es[i] # "nil" THEN "error" ELSE "nil"

RECURSIVE IndexInstanceIDsKeepingEmptyIDs(_, _, _)
\* The loops indexing a provider id that parses to the empty instance id.
IndexInstanceIDsKeepingEmptyIDs(pids, i, m) ==
    IF i > Len(pids) THEN m
    ELSE LET parsed == ParseInstanceID(pids[i])
             skip == pids[i] = <<>> \/ parsed.err
         IN IndexInstanceIDsKeepingEmptyIDs(pids, i + 1,
                IF skip THEN m
                ELSE [x \in DOMAIN m \cup {parsed.id} |->
                        IF x = parsed.id THEN i ELSE m[x]])

RECURSIVE IndexInstanceIDsFirstWins(_, _, _)
\* The loops keeping the first item listed for an instance id.
IndexInstanceIDsFirstWins(pids, i, m) ==
    IF i > Len(pids) THEN m
    ELSE LET parsed == ParseInstanceID(pids[i])
             skip == pids[i] = <<>> \/ parsed.err \/ parsed.id = "" \/ parsed.id \in DOMAIN m
         IN IndexInstanceIDsFirstWins(pids, i + 1,
                IF skip THEN m
                ELSE [x \in DOMAIN m \cup {parsed.id} |->
                        IF x = parsed.id THEN i ELSE m[x]])

RECURSIVE IndexInstanceIDs(_, _, _)
\* The loops of makeNodeClaimInstanceIDMap and makeNodeInstanceIDMap over
\* the provider ids of the listed items, from item i on: a later item
\* overwrites an earlier one of the same instance id.
IndexInstanceIDs(pids, i, m) ==
    IF i > Len(pids) THEN m
    ELSE LET parsed == ParseInstanceID(pids[i])
             skip == pids[i] = <<>> \/ parsed.err \/ parsed.id = ""
         IN IndexInstanceIDs(pids, i + 1,
                IF skip THEN m
                ELSE [x \in DOMAIN m \cup {parsed.id} |->
                        IF x = parsed.id THEN i ELSE m[x]])

makeNodeClaimInstanceIDMap(items) ==
    IndexInstanceIDs([i \in 1..Len(items) |-> items[i].status.providerID], 1, EmptyMap)

makeNodeInstanceIDMap(items) ==
    IndexInstanceIDs([i \in 1..Len(items) |-> items[i].spec.providerID], 1, EmptyMap)

RECURSIVE SortedSeq(_)
\* The messages of the queue, oldest first.
SortedSeq(S) ==
    IF S = {} THEN <<>>
    ELSE LET least == CHOOSE x \in S : \A y \in S : x <= y
         IN <<least>> \o SortedSeq(S \ {least})

InFlight == { i \in DOMAIN handler : handler[i].pc \notin {"queued", "done"} }

\* The handler of piece i moves to position next; "nextInstance" is the next
\* iteration of handleMessage's loop over msg.EC2InstanceIDs().
Advance(h, next) ==
    IF next = "nextInstance"
    THEN [h EXCEPT !.pc = "lookup", !.k = @ + 1]
    ELSE [h EXCEPT !.pc = next]

\* The NodeClaim that handler i is acting on.
NodeClaimOf(i) ==
    cachedNodeClaims[nodeClaimInstanceIDMap[handler[i].msg.ids[handler[i].k]]]

\* The name of the Node found for an instance id ("" when there is none).
NodeNameOf(id) ==
    IF id \in DOMAIN nodeInstanceIDMap THEN cachedNodes[nodeInstanceIDMap[id]].name ELSE ""

\* An instance id with no NodeClaim in the index reported as an error.
AfterLookupMissIsError(ok, h) ==
    IF ok THEN Advance(h, AfterNotify(h.msg))
    ELSE Advance([h EXCEPT !.err = TRUE], "nextInstance")

\* handleMessage lines 157-160: an instance id with no NodeClaim in the
\* index is skipped; a matched one is handed to handleNodeClaim.
AfterLookup(ok, h) ==
    IF ok THEN Advance(h, AfterNotify(h.msg)) ELSE Advance(h, "nextInstance")

RECURSIVE handleMessageLoopCountingFirst(_, _)
\* handleNodeClaim counting the action before it publishes the notification.
handleMessageLoopCountingFirst(h, tr) ==
    IF h.pc # "lookup" THEN [h |-> h, tr |-> tr]
    ELSE IF h.k > Len(h.msg.ids)
    THEN [h |-> [h EXCEPT !.pc = AfterHandleMessage(h.err)],
          tr |-> Append(tr, Call("messageLatency", "", "", ""))]
    ELSE IF h.msg.ids[h.k] \notin DOMAIN nodeClaimInstanceIDMap
    THEN handleMessageLoopCountingFirst(AfterLookup(FALSE, h), tr)
    ELSE handleMessageLoopCountingFirst(
            AfterLookup(TRUE, h),
            LET name == cachedNodeClaims[nodeClaimInstanceIDMap[h.msg.ids[h.k]]].name
            IN tr \o <<Call("actionsPerformed", actionForMessage(h.msg), name, "")>>
                  \o [j \in 1..Len(notifyForMessage(h.msg)) |->
                        Call("Publish", notifyForMessage(h.msg)[j], name,
                             NodeNameOf(h.msg.ids[h.k]))])

RECURSIVE handleMessageLoopLatencyOnSuccess(_, _)
\* handleMessage observing the latency only when no handleNodeClaim failed.
handleMessageLoopLatencyOnSuccess(h, tr) ==
    IF h.pc # "lookup" THEN [h |-> h, tr |-> tr]
    ELSE IF h.k > Len(h.msg.ids)
    THEN [h |-> [h EXCEPT !.pc = AfterHandleMessage(h.err)],
          tr |-> IF h.err THEN tr ELSE Append(tr, Call("messageLatency", "", "", ""))]
    ELSE IF h.msg.ids[h.k] \notin DOMAIN nodeClaimInstanceIDMap
    THEN handleMessageLoopLatencyOnSuccess(AfterLookup(FALSE, h), tr)
    ELSE handleMessageLoopLatencyOnSuccess(
            AfterLookup(TRUE, h),
            LET name == cachedNodeClaims[nodeClaimInstanceIDMap[h.msg.ids[h.k]]].name
            IN tr \o [j \in 1..Len(notifyForMessage(h.msg)) |->
                        Call("Publish", notifyForMessage(h.msg)[j], name,
                             NodeNameOf(h.msg.ids[h.k]))]
                  \o <<Call("actionsPerformed", actionForMessage(h.msg), name, "")>>)

RECURSIVE handleMessageLoop(_, _)
\* handleMessage lines 156-170 from the instance id at h.k on, up to the
\* handler's next blocking call: an id with no NodeClaim in the index is
\* skipped; for a matched id the head of handleNodeClaim (lines 184-192)
\* publishes the event and counts the action; after the last id the latency
\* is observed and handleMessage returns to Reconcile lines 113-117.
handleMessageLoop(h, tr) ==
    IF h.pc # "lookup" THEN [h |-> h, tr |-> tr]
    ELSE IF h.k > Len(h.msg.ids)
    THEN [h |-> [h EXCEPT !.pc = AfterHandleMessage(h.err)],
          tr |-> Append(tr, Call("messageLatency", "", "", ""))]
    ELSE IF h.msg.ids[h.k] \notin DOMAIN nodeClaimInstanceIDMap
    THEN handleMessageLoop(AfterLookup(FALSE, h), tr)
    ELSE handleMessageLoop(
            AfterLookup(TRUE, h),
            LET name == cachedNodeClaims[nodeClaimInstanceIDMap[h.msg.ids[h.k]]].name
            IN tr \o [j \in 1..Len(notifyForMessage(h.msg)) |->
                        Call("Publish", notifyForMessage(h.msg)[j], name,
                             NodeNameOf(h.msg.ids[h.k]))]
                  \o <<Call("actionsPerformed", actionForMessage(h.msg), name, "")>>)

\* Reconcile keeping one error for the whole batch instead of one slot of
\* errs for each message.
ResumeSharingError(i, h, made) ==
    LET r == handleMessageLoop(h, trace[i] \o made)
    IN /\ handler' = [handler EXCEPT ![i] = r.h]
       /\ trace' = [trace EXCEPT ![i] = r.tr]
       /\ errs' = [j \in DOMAIN errs |->
                     IF r.h.pc = "done" THEN "handling message" ELSE errs[j]]

\* Handler i has made the given calls and goes on from position h, up to its
\* next blocking call; a handleMessage error is stored in errs[i]
\* (Reconcile line 114).
Resume(i, h, made) ==
    LET r == handleMessageLoop(h, trace[i] \o made)
    IN /\ handler' = [handler EXCEPT ![i] = r.h]
       /\ trace' = [trace EXCEPT ![i] = r.tr]
       /\ errs' = [errs EXCEPT ![i] = IF r.h.pc = "done" THEN "handling message" ELSE @]

\* ---------------------------------------------------------------- actions

\* What the handlers of the fan-out never write.
cycle == <<pc, inputs, sqsMessages, nodeClaimInstanceIDMap, nodeInstanceIDMap,
           calls, cancelled, result>>

\* What Reconcile itself never writes outside the fan-out.
effects == <<queue, apiServer, unavailableOfferingsCache, created, deletedMessages,
             nodeClaimsTerminated>>

\* Reconcile without its return for an empty batch.
ReceiveWithoutEmptyCheck ==
    /\ pc = "receive"
    /\ \E res \in {"ok", "error"} :
         /\ calls' = Append(calls, Call("GetSQSMessages", "", "", res))
         /\ IF res = "error"
            THEN /\ pc' = "done"
                 /\ result' = "getting messages from queue"
                 /\ UNCHANGED <<sqsMessages, handler, errs, trace>>
            ELSE LET batch == SortedSeq(queue)
                 IN /\ sqsMessages' = batch
                    /\ handler' = [i \in 1..Len(batch) |-> IdleHandler]
                    /\ errs' = [i \in 1..Len(batch) |-> "nil"]
                    /\ trace' = [i \in 1..Len(batch) |-> <<>>]
                    /\ pc' = "listNodeClaims"
                    /\ UNCHANGED result
    /\ UNCHANGED <<inputs, effects, nodeClaimInstanceIDMap, nodeInstanceIDMap, nextPiece,
                   cancelled>>

\* Reconcile lines 89-95: sqsProvider.GetSQSMessages.
Receive ==
    /\ pc = "receive"
    /\ \E res \in {"ok", "error"} :
         /\ calls' = Append(calls, Call("GetSQSMessages", "", "", res))
         /\ IF res = "error"
            THEN /\ pc' = "done"
                 /\ result' = "getting messages from queue"
                 /\ UNCHANGED <<sqsMessages, handler, errs, trace>>
            ELSE LET batch == SortedSeq(queue)
                 IN /\ sqsMessages' = batch
                    /\ handler' = [i \in 1..Len(batch) |-> IdleHandler]
                    /\ errs' = [i \in 1..Len(batch) |-> "nil"]
                    /\ trace' = [i \in 1..Len(batch) |-> <<>>]
                    /\ IF Len(batch) = 0
                       THEN pc' = "done" /\ result' = "nil"
                       ELSE pc' = "listNodeClaims" /\ UNCHANGED result
    /\ UNCHANGED <<inputs, effects, nodeClaimInstanceIDMap, nodeInstanceIDMap, nextPiece,
                   cancelled>>

\* Reconcile lines 96-99: makeNodeClaimInstanceIDMap.
ListNodeClaims ==
    /\ pc = "listNodeClaims"
    /\ \E res \in {"ok", "error"} :
         /\ calls' = Append(calls, Call("List", "NodeClaims", "", res))
         /\ IF res = "ok"
            THEN /\ nodeClaimInstanceIDMap' = makeNodeClaimInstanceIDMap(cachedNodeClaims)
                 /\ pc' = "listNodes"
                 /\ UNCHANGED result
            ELSE /\ pc' = "done"
                 /\ result' = "making nodeclaim instance id map"
                 /\ UNCHANGED nodeClaimInstanceIDMap
    /\ UNCHANGED <<inputs, effects, sqsMessages, nodeInstanceIDMap, nextPiece, handler,
                   errs, trace, cancelled>>

\* Reconcile going on to the fan-out after a failed listing of the Nodes.
ListNodesIgnoringError ==
    /\ pc = "listNodes"
    /\ \E res \in {"ok", "error"} :
         /\ calls' = Append(calls, Call("List", "Nodes", "", res))
         /\ nodeInstanceIDMap' = IF res = "ok" THEN makeNodeInstanceIDMap(cachedNodes)
                                  ELSE nodeInstanceIDMap
         /\ pc' = "fanout"
         /\ UNCHANGED result
    /\ UNCHANGED <<inputs, effects, sqsMessages, nodeClaimInstanceIDMap, nextPiece,
                   handler, errs, trace, cancelled>>

\* Reconcile lines 100-103: makeNodeInstanceIDMap.
ListNodes ==
    /\ pc = "listNodes"
    /\ \E res \in {"ok", "error"} :
         /\ calls' = Append(calls, Call("List", "Nodes", "", res))
         /\ IF res = "ok"
            THEN /\ nodeInstanceIDMap' = makeNodeInstanceIDMap(cachedNodes)
                 /\ pc' = "fanout"
                 /\ UNCHANGED result
            ELSE /\ pc' = "done"
                 /\ result' = "making node instance id map"
                 /\ UNCHANGED nodeInstanceIDMap
    /\ UNCHANGED <<inputs, effects, sqsMessages, nodeClaimInstanceIDMap, nextPiece,
                   handler, errs, trace, cancelled>>

\* The context of the cycle is done (cancelled, or past its deadline) while
\* pieces are still waiting in toProcess. Once every piece is taken the
\* context only makes the handlers' calls fail, which they may do anyway.
Cancel ==
    /\ pc = "fanout"
    /\ ~cancelled
    /\ nextPiece <= Len(sqsMessages)
    /\ cancelled' = TRUE
    /\ UNCHANGED <<pc, inputs, effects, sqsMessages, nodeClaimInstanceIDMap,
                   nodeInstanceIDMap, calls, result, nextPiece, handler, errs, trace>>

\* A fan-out that starts a handler for every piece at once.
StartUnbounded(i) ==
    /\ pc = "fanout"
    /\ i = nextPiece
    /\ i \in Pieces
    /\ ~cancelled
    /\ nextPiece' = nextPiece + 1
    /\ LET parsed == parseMessage(bodies[sqsMessages[i]])
           msg == parsed.msg
       IN IF AfterParse(parsed) # "handleMessage"
          THEN Resume(i, [handler[i] EXCEPT !.pc = AfterParse(parsed)],
                      <<Call("parseMessage", "", "", "error")>>)
          ELSE IF msg.kind = NoOpKind
          THEN Resume(i, [handler[i] EXCEPT !.pc = AfterHandleMessage(FALSE), !.msg = msg],
                      <<Call("parseMessage", "", "", "ok"),
                        Call("receivedMessages", msg.kind, "", "")>>)
          ELSE Resume(i, [handler[i] EXCEPT !.pc = "lookup", !.msg = msg, !.k = 1],
                      <<Call("parseMessage", "", "", "ok"),
                        Call("receivedMessages", msg.kind, "", "")>>)
    /\ UNCHANGED <<cycle, effects>>

\* handleMessage without its return for a NoOp message.
StartWithoutNoOpCheck(i) ==
    /\ pc = "fanout"
    /\ i = nextPiece
    /\ i \in Pieces
    /\ ~cancelled
    /\ Cardinality(InFlight) < Workers
    /\ nextPiece' = nextPiece + 1
    /\ LET parsed == parseMessage(bodies[sqsMessages[i]])
           msg == parsed.msg
       IN IF AfterParse(parsed) # "handleMessage"
          THEN Resume(i, [handler[i] EXCEPT !.pc = AfterParse(parsed)],
                      <<Call("parseMessage", "", "", "error")>>)
          ELSE Resume(i, [handler[i] EXCEPT !.pc = "lookup", !.msg = msg, !.k = 1],
                      <<Call("parseMessage", "", "", "ok"),
                        Call("receivedMessages", msg.kind, "", "")>>)
    /\ UNCHANGED <<cycle, effects>>

\* ParallelizeUntil: a worker takes the next piece of toProcess unless the
\* context is done, and runs Reconcile lines 106-113 on it: parseMessage,
\* then handleMessage (lines 150-155) up to its first blocking call.
Start(i) ==
    /\ pc = "fanout"
    /\ i = nextPiece
    /\ i \in Pieces
    /\ ~cancelled
    /\ Cardinality(InFlight) < Workers
    /\ nextPiece' = nextPiece + 1
    /\ LET parsed == parseMessage(bodies[sqsMessages[i]])
           msg == parsed.msg
       IN IF AfterParse(parsed) # "handleMessage"
          THEN Resume(i, [handler[i] EXCEPT !.pc = AfterParse(parsed)],
                      <<Call("parseMessage", "", "", "error")>>)
          ELSE IF msg.kind = NoOpKind
          THEN Resume(i, [handler[i] EXCEPT !.pc = AfterHandleMessage(FALSE), !.msg = msg],
                      <<Call("parseMessage", "", "", "ok"),
                        Call("receivedMessages", msg.kind, "", "")>>)
          ELSE Resume(i, [handler[i] EXCEPT !.pc = "lookup", !.msg = msg, !.k = 1],
                      <<Call("parseMessage", "", "", "ok"),
                        Call("receivedMessages", msg.kind, "", "")>>)
    /\ UNCHANGED <<cycle, effects>>

\* The mark made with the capacity type of the NodeClaim's label.
MarkUnavailableWithLabelCapacityType(i) ==
    /\ pc = "fanout"
    /\ i \in Pieces
    /\ handler[i].pc = "markUnavailable"
    /\ LET nc == NodeClaimOf(i)
           zone == nc.labels.zone
           instanceType == nc.labels.instanceType
       IN IF zone # "" /\ instanceType # ""
          THEN /\ unavailableOfferingsCache' = unavailableOfferingsCache \cup
                      {[reason |-> handler[i].msg.kind, instanceType |-> instanceType,
                        zone |-> zone, capacityType |-> nc.labels.capacityType]}
               /\ Resume(i, Advance(handler[i], "createNodeClaim"),
                         <<Call("MarkUnavailable", "", nc.name, "")>>)
          ELSE /\ Resume(i, Advance(handler[i], "createNodeClaim"), <<>>)
               /\ UNCHANGED unavailableOfferingsCache
    /\ UNCHANGED <<cycle, nextPiece, queue, apiServer, created, deletedMessages,
                   nodeClaimsTerminated>>

\* handleNodeClaim lines 195-200: unavailableOfferingsCache.MarkUnavailable.
MarkUnavailable(i) ==
    /\ pc = "fanout"
    /\ i \in Pieces
    /\ handler[i].pc = "markUnavailable"
    /\ LET nc == NodeClaimOf(i)
           zone == nc.labels.zone
           instanceType == nc.labels.instanceType
       IN IF zone # "" /\ instanceType # ""
          THEN /\ unavailableOfferingsCache' = unavailableOfferingsCache \cup
                      {[reason |-> handler[i].msg.kind, instanceType |-> instanceType,
                        zone |-> zone, capacityType |-> CapacityTypeSpot]}
               /\ Resume(i, Advance(handler[i], "createNodeClaim"),
                         <<Call("MarkUnavailable", "", nc.name, "")>>)
          ELSE /\ Resume(i, Advance(handler[i], "createNodeClaim"), <<>>)
               /\ UNCHANGED unavailableOfferingsCache
    /\ UNCHANGED <<cycle, nextPiece, queue, apiServer, created, deletedMessages,
                   nodeClaimsTerminated>>

\* handleNodeClaim returning the error of createNodeClaim.
CreateNodeClaimPropagatingError(i) ==
    /\ pc = "fanout"
    /\ i \in Pieces
    /\ handler[i].pc = "createNodeClaim"
    /\ \E res \in {"ok", "error"} :
         /\ IF res = "ok"
            THEN Resume(i, Advance(handler[i], AfterCreate(handler[i].msg)),
                        <<Call("Create", "", NodeClaimOf(i).name, res)>>)
            ELSE Resume(i, Advance([handler[i] EXCEPT !.err = TRUE], "nextInstance"),
                        <<Call("Create", "", NodeClaimOf(i).name, res)>>)
         /\ created' = IF res = "ok"
                       THEN Append(created, createNodeClaim(NodeClaimOf(i)))
                       ELSE created
    /\ UNCHANGED <<cycle, nextPiece, queue, apiServer, unavailableOfferingsCache,
                   deletedMessages, nodeClaimsTerminated>>

\* handleNodeClaim lines 201-204: createNodeClaim, its error only logged.
CreateNodeClaim(i) ==
    /\ pc = "fanout"
    /\ i \in Pieces
    /\ handler[i].pc = "createNodeClaim"
    /\ \E res \in {"ok", "error"} :
         /\ Resume(i, Advance(handler[i], AfterCreate(handler[i].msg)),
                   <<Call("Create", "", NodeClaimOf(i).name, res)>>)
         /\ created' = IF res = "ok"
                       THEN Append(created, createNodeClaim(NodeClaimOf(i)))
                       ELSE created
    /\ UNCHANGED <<cycle, nextPiece, queue, apiServer, unavailableOfferingsCache,
                   deletedMessages, nodeClaimsTerminated>>

\* handleMessage returning at the first handleNodeClaim that fails, the
\* remaining instance ids left alone.
DeleteNodeClaimReturningOnFailure(i) ==
    /\ pc = "fanout"
    /\ i \in Pieces
    /\ handler[i].pc = "deleteNodeClaim"
    /\ LET nc == NodeClaimOf(i)
           node == NodeNameOf(handler[i].msg.ids[handler[i].k])
       IN IF ~DeletionTimestampIsZero(nc)
          THEN /\ Resume(i, Advance(handler[i], "nextInstance"), <<>>)
               /\ UNCHANGED <<apiServer, nodeClaimsTerminated>>
          ELSE \E res \in DeleteResults(apiServer[nc.name]) :
                 IF res = "ok"
                 THEN /\ \E after \in {"deleting", "gone"} :
                           apiServer' = [apiServer EXCEPT ![nc.name] = after]
                      /\ Resume(i, Advance(handler[i], "nextInstance"),
                                <<Call("Delete", "", nc.name, res),
                                  Call("Publish", "TerminatingOnInterruption", nc.name, node),
                                  Call("NodeClaimsTerminated", terminationReasonLabel,
                                       nc.name, "")>>)
                      /\ nodeClaimsTerminated' = nodeClaimsTerminated + 1
                 ELSE /\ IF IgnoreNotFound(res) # "nil"
                         THEN Resume(i, [handler[i] EXCEPT !.err = TRUE,
                                                           !.pc = AfterHandleMessage(TRUE)],
                                     <<Call("Delete", "", nc.name, res)>>)
                         ELSE Resume(i, Advance(handler[i], "nextInstance"),
                                     <<Call("Delete", "", nc.name, res)>>)
                      /\ UNCHANGED <<apiServer, nodeClaimsTerminated>>
    /\ UNCHANGED <<cycle, nextPiece, queue, unavailableOfferingsCache, created,
                   deletedMessages>>

\* deleteNodeClaim returning at once when no Node was found for the
\* instance.
DeleteNodeClaimNeedingNode(i) ==
    /\ pc = "fanout"
    /\ i \in Pieces
    /\ handler[i].pc = "deleteNodeClaim"
    /\ LET nc == NodeClaimOf(i)
           node == NodeNameOf(handler[i].msg.ids[handler[i].k])
       IN IF ~DeletionTimestampIsZero(nc) \/ node = ""
          THEN /\ Resume(i, Advance(handler[i], "nextInstance"), <<>>)
               /\ UNCHANGED <<apiServer, nodeClaimsTerminated>>
          ELSE \E res \in DeleteResults(apiServer[nc.name]) :
                 IF res = "ok"
                 THEN /\ \E after \in {"deleting", "gone"} :
                           apiServer' = [apiServer EXCEPT ![nc.name] = after]
                      /\ Resume(i, Advance(handler[i], "nextInstance"),
                                <<Call("Delete", "", nc.name, res),
                                  Call("Publish", "TerminatingOnInterruption", nc.name, node),
                                  Call("NodeClaimsTerminated", terminationReasonLabel,
                                       nc.name, "")>>)
                      /\ nodeClaimsTerminated' = nodeClaimsTerminated + 1
                 ELSE /\ Resume(i, Advance([handler[i] EXCEPT
                                              !.err = @ \/ IgnoreNotFound(res) # "nil"],
                                           "nextInstance"),
                                <<Call("Delete", "", nc.name, res)>>)
                      /\ UNCHANGED <<apiServer, nodeClaimsTerminated>>
    /\ UNCHANGED <<cycle, nextPiece, queue, unavailableOfferingsCache, created,
                   deletedMessages>>

\* deleteNodeClaim lines 227-242, and handleMessage lines 162-164 on its
\* return.
DeleteNodeClaim(i) ==
    /\ pc = "fanout"
    /\ i \in Pieces
    /\ handler[i].pc = "deleteNodeClaim"
    /\ LET nc == NodeClaimOf(i)
           node == NodeNameOf(handler[i].msg.ids[handler[i].k])
       IN IF ~DeletionTimestampIsZero(nc)
          THEN /\ Resume(i, Advance(handler[i], "nextInstance"), <<>>)
               /\ UNCHANGED <<apiServer, nodeClaimsTerminated>>
          ELSE \E res \in DeleteResults(apiServer[nc.name]) :
                 IF res = "ok"
                 THEN /\ \E after \in {"deleting", "gone"} :
                           apiServer' = [apiServer EXCEPT ![nc.name] = after]
                      /\ Resume(i, Advance(handler[i], "nextInstance"),
                                <<Call("Delete", "", nc.name, res),
                                  Call("Publish", "TerminatingOnInterruption", nc.name, node),
                                  Call("NodeClaimsTerminated", terminationReasonLabel,
                                       nc.name, "")>>)
                      /\ nodeClaimsTerminated' = nodeClaimsTerminated + 1
                 ELSE /\ Resume(i, Advance([handler[i] EXCEPT
                                              !.err = @ \/ IgnoreNotFound(res) # "nil"],
                                           "nextInstance"),
                                <<Call("Delete", "", nc.name, res)>>)
                      /\ UNCHANGED <<apiServer, nodeClaimsTerminated>>
    /\ UNCHANGED <<cycle, nextPiece, queue, unavailableOfferingsCache, created,
                   deletedMessages>>

\* deleteMessage counting the delete before it looks at its error.
DeleteMessageCountingAttempts(i) ==
    /\ pc = "fanout"
    /\ i \in Pieces
    /\ handler[i].pc = "deleteMessage"
    /\ \E res \in {"ok", "error"} :
         /\ trace' = [trace EXCEPT ![i] = Append(@, Call("DeleteSQSMessage", "", "", res))]
         /\ deletedMessages' = deletedMessages + 1
         /\ IF res = "ok"
            THEN /\ queue' = queue \ {sqsMessages[i]}
                 /\ UNCHANGED errs
            ELSE /\ errs' = [errs EXCEPT ![i] = "deleting sqs message"]
                 /\ UNCHANGED queue
    /\ handler' = [handler EXCEPT ![i] = Advance(@, "done")]
    /\ UNCHANGED <<cycle, nextPiece, apiServer, unavailableOfferingsCache, created,
                   nodeClaimsTerminated>>

\* deleteMessage only logging the error of DeleteSQSMessage.
DeleteMessageSwallowingError(i) ==
    /\ pc = "fanout"
    /\ i \in Pieces
    /\ handler[i].pc = "deleteMessage"
    /\ \E res \in {"ok", "error"} :
         /\ trace' = [trace EXCEPT ![i] = Append(@, Call("DeleteSQSMessage", "", "", res))]
         /\ IF res = "ok"
            THEN /\ queue' = queue \ {sqsMessages[i]}
                 /\ deletedMessages' = deletedMessages + 1
            ELSE UNCHANGED <<queue, deletedMessages>>
         /\ UNCHANGED errs
    /\ handler' = [handler EXCEPT ![i] = Advance(@, "done")]
    /\ UNCHANGED <<cycle, nextPiece, apiServer, unavailableOfferingsCache, created,
                   nodeClaimsTerminated>>

\* deleteMessage lines 174-180, and its result stored in errs[i]
\* (Reconcile lines 110 and 117).
DeleteMessage(i) ==
    /\ pc = "fanout"
    /\ i \in Pieces
    /\ handler[i].pc = "deleteMessage"
    /\ \E res \in {"ok", "error"} :
         /\ trace' = [trace EXCEPT ![i] = Append(@, Call("DeleteSQSMessage", "", "", res))]
         /\ IF res = "ok"
            THEN /\ queue' = queue \ {sqsMessages[i]}
                 /\ deletedMessages' = deletedMessages + 1
                 /\ UNCHANGED errs
            ELSE /\ errs' = [errs EXCEPT ![i] = "deleting sqs message"]
                 /\ UNCHANGED <<queue, deletedMessages>>
    /\ handler' = [handler EXCEPT ![i] = Advance(@, "done")]
    /\ UNCHANGED <<cycle, nextPiece, apiServer, unavailableOfferingsCache, created,
                   nodeClaimsTerminated>>

\* Reconcile returning as soon as one handler has stored an error, like an
\* error group, with the other handlers left where they are.
FinishOnFirstError ==
    /\ pc = "fanout"
    /\ \/ InFlight = {} /\ (nextPiece > Len(sqsMessages) \/ cancelled)
       \/ \E i \in DOMAIN errs : errs[i] # "nil"
    /\ pc' = "done"
    /\ result' = IF Combine(errs) = "nil" THEN "nil" ELSE "multierr"
    /\ UNCHANGED <<inputs, effects, sqsMessages, nodeClaimInstanceIDMap, nodeInstanceIDMap,
                   calls, cancelled, nextPiece, handler, errs, trace>>

\* Reconcile lines 119-122: ParallelizeUntil has returned (every worker has
\* left: toProcess is drained or the context is done).
Finish ==
    /\ pc = "fanout"
    /\ InFlight = {}
    /\ nextPiece > Len(sqsMessages) \/ cancelled
    /\ pc' = "done"
    /\ result' = IF Combine(errs) = "nil" THEN "nil" ELSE "multierr"
    /\ UNCHANGED <<inputs, effects, sqsMessages, nodeClaimInstanceIDMap, nodeInstanceIDMap,
                   calls, cancelled, nextPiece, handler, errs, trace>>

Next ==
    \/ Receive
    \/ ListNodeClaims
    \/ ListNodes
    \/ Cancel
    \/ \E i \in 1..MaxBatch : Start(i)
    \/ \E i \in 1..MaxBatch : MarkUnavailable(i)
    \/ \E i \in 1..MaxBatch : CreateNodeClaim(i)
    \/ \E i \in 1..MaxBatch : DeleteNodeClaim(i)
    \/ \E i \in 1..MaxBatch : DeleteMessage(i)
    \/ Finish

Spec == Init /\ [][Next]_vars

\* ------------------------------------------- a batch wider than the fan-out

\* How many messages the batch has beyond the width of the fan-out.
ExtraMessages == 1

FanoutBatch == Workers + ExtraMessages

\* A cycle on a queue of FanoutBatch messages of a detail type no parser
\* claims: every handler is parseMessage, handleMessage returning at the
\* NoOp check, and deleteMessage.
FanoutInit ==
    /\ pc = "receive"
    /\ bodies = [i \in 1..FanoutBatch |-> Event("Unrecognized Detail Type", <<"i-1">>, "")]
    /\ queue = 1..Len(bodies)
    /\ sqsMessages = <<>>
    /\ cachedNodeClaims =
         <<NodeClaimObject("nc1", ProviderID("i-1"), "us-east-1a", "m5.large", "spot", FALSE),
           SecondNodeClaim>>
    /\ cachedNodes = <<NodeObject("n1", ProviderID("i-1"))>>
    /\ apiServer = [name \in {"nc1", "nc2"} |-> "live"]
    /\ nodeClaimInstanceIDMap = EmptyMap
    /\ nodeInstanceIDMap = EmptyMap
    /\ nextPiece = 1
    /\ handler = <<>>
    /\ errs = <<>>
    /\ trace = <<>>
    /\ unavailableOfferingsCache = {}
    /\ created = <<>>
    /\ deletedMessages = 0
    /\ nodeClaimsTerminated = 0
    /\ calls = <<>>
    /\ cancelled = FALSE
    /\ result = "pending"
    /\ request = NoRequest
    /\ quantities = NoQuantities

FanoutNext ==
    \/ Receive
    \/ ListNodeClaims
    \/ ListNodes
    \/ Cancel
    \/ \E i \in 1..FanoutBatch : Start(i)
    \/ \E i \in 1..FanoutBatch : DeleteMessage(i)
    \/ Finish

FanoutSpec == FanoutInit /\ [][FanoutNext]_vars

\* --------------------------------------------- redelivery over two cycles

\* How many times Reconcile runs on the queue.
MaxDeliveries == 2

RECURSIVE Flatten(_)
\* The calls of the handlers of a cycle, one handler after the other.
Flatten(trs) == IF trs = <<>> THEN <<>> ELSE Head(trs) \o Flatten(Tail(trs))

RECURSIVE Relisted(_, _, _)
\* What kubeClient.List returns in a later cycle: a NodeClaim under deletion
\* is listed with its deletion timestamp once the cache has caught up
\* (marked), a NodeClaim that is gone is no longer listed once it has
\* (dropped).
Relisted(items, marked, dropped) ==
    IF items = <<>> THEN <<>>
    ELSE LET nc == Head(items)
             rest == Relisted(Tail(items), marked, dropped)
         IN IF nc.name \in dropped THEN rest
            ELSE IF nc.name \in marked
            THEN <<[nc EXCEPT !.deletionTimestamp = TRUE]>> \o rest
            ELSE <<nc>> \o rest

\* The singleton controller runs Reconcile again: a message still in the
\* queue is delivered once more. calls keeps the calls of the earlier cycles.
Redeliver ==
    /\ pc = "done"
    /\ queue # {}
    /\ Cardinality({n \in DOMAIN calls : calls[n].op = "GetSQSMessages"}) < MaxDeliveries
    /\ pc' = "receive"
    /\ result' = "pending"
    /\ calls' = calls \o Flatten(trace)
    /\ \E marked \in SUBSET {name \in DOMAIN apiServer : apiServer[name] = "deleting"} :
       \E dropped \in SUBSET {name \in DOMAIN apiServer : apiServer[name] = "gone"} :
         cachedNodeClaims' = Relisted(cachedNodeClaims, marked, dropped)
    /\ sqsMessages' = <<>>
    /\ nodeClaimInstanceIDMap' = EmptyMap
    /\ nodeInstanceIDMap' = EmptyMap
    /\ nextPiece' = 1
    /\ handler' = <<>>
    /\ errs' = <<>>
    /\ trace' = <<>>
    /\ cancelled' = FALSE
    /\ UNCHANGED <<bodies, cachedNodes, effects, instancetype>>

\* A queue holding one SpotInterruption message, for the instance of either
\* NodeClaim.
RedeliveryInit ==
    /\ pc = "receive"
    /\ bodies \in { <<Event("EC2 Spot Instance Interruption Warning", <<id>>, "")>> :
                      id \in {"i-1", "i-2"} }
    /\ queue = 1..Len(bodies)
    /\ sqsMessages = <<>>
    /\ cachedNodeClaims =
         <<NodeClaimObject("nc1", ProviderID("i-1"), "us-east-1a", "m5.large", "spot", FALSE),
           SecondNodeClaim>>
    /\ cachedNodes \in NodeLists
    /\ apiServer = [name \in {"nc1", "nc2"} |-> "live"]
    /\ nodeClaimInstanceIDMap = EmptyMap
    /\ nodeInstanceIDMap = EmptyMap
    /\ nextPiece = 1
    /\ handler = <<>>
    /\ errs = <<>>
    /\ trace = <<>>
    /\ unavailableOfferingsCache = {}
    /\ created = <<>>
    /\ deletedMessages = 0
    /\ nodeClaimsTerminated = 0
    /\ calls = <<>>
    /\ cancelled = FALSE
    /\ result = "pending"
    /\ request = NoRequest
    /\ quantities = NoQuantities

RedeliveryNext ==
    \/ Receive
    \/ ListNodeClaims
    \/ ListNodes
    \/ Cancel
    \/ \E i \in 1..MaxBatch : Start(i)
    \/ \E i \in 1..MaxBatch : MarkUnavailable(i)
    \/ \E i \in 1..MaxBatch : CreateNodeClaim(i)
    \/ \E i \in 1..MaxBatch : DeleteNodeClaim(i)
    \/ \E i \in 1..MaxBatch : DeleteMessage(i)
    \/ Finish
    \/ Redeliver

RedeliverySpec == RedeliveryInit /\ [][RedeliveryNext]_vars

\* ------------------------------------------- a batch over several cycles

\* A queue of two messages, each unparseable, of an unclaimed detail type
\* or a SpotInterruption for i-1, handled by up to MaxDeliveries cycles.
BatchRedeliveryInit ==
    /\ pc = "receive"
    /\ bodies \in [1..2 -> { Text("not-json"),
                             Event("Unrecognized Detail Type", <<"i-1">>, ""),
                             Event("EC2 Spot Instance Interruption Warning", <<"i-1">>, "") }]
    /\ queue = 1..Len(bodies)
    /\ sqsMessages = <<>>
    /\ cachedNodeClaims =
         <<NodeClaimObject("nc1", ProviderID("i-1"), "us-east-1a", "m5.large", "spot", FALSE),
           SecondNodeClaim>>
    /\ cachedNodes = <<NodeObject("n1", ProviderID("i-1"))>>
    /\ apiServer = [name \in {"nc1", "nc2"} |-> "live"]
    /\ nodeClaimInstanceIDMap = EmptyMap
    /\ nodeInstanceIDMap = EmptyMap
    /\ nextPiece = 1
    /\ handler = <<>>
    /\ errs = <<>>
    /\ trace = <<>>
    /\ unavailableOfferingsCache = {}
    /\ created = <<>>
    /\ deletedMessages = 0
    /\ nodeClaimsTerminated = 0
    /\ calls = <<>>
    /\ cancelled = FALSE
    /\ result = "pending"
    /\ request = NoRequest
    /\ quantities = NoQuantities

BatchRedeliveryNext ==
    \/ Receive
    \/ ListNodeClaims
    \/ ListNodes
    \/ Cancel
    \/ \E i \in 1..MaxBatch : Start(i)
    \/ \E i \in 1..MaxBatch : MarkUnavailable(i)
    \/ \E i \in 1..MaxBatch : CreateNodeClaim(i)
    \/ \E i \in 1..MaxBatch : DeleteNodeClaim(i)
    \/ \E i \in 1..MaxBatch : DeleteMessage(i)
    \/ Finish
    \/ Redeliver

BatchRedeliverySpec == BatchRedeliveryInit /\ [][BatchRedeliveryNext]_vars

\* -------------------------------------- redelivery until every call succeeds

\* After this many failed calls every call succeeds: the queue, the listings
\* and the deletes fail only finitely often.
FailureBudget == MaxDeliveries - 1

\* The calls that failed, over all cycles.
Failures ==
    LET all == calls \o Flatten(trace)
    IN Cardinality({n \in DOMAIN all : all[n].res = "error"})

\* A step of the controller that keeps the failures within the budget.
Within(step) == step /\ Failures' <= FailureBudget

\* The cycles of a controller whose context is not cancelled, run again by
\* the singleton builder for as long as a message is in the queue.
LiveNext ==
    \/ Within(Receive)
    \/ Within(ListNodeClaims)
    \/ Within(ListNodes)
    \/ \E i \in 1..MaxBatch : Within(Start(i))
    \/ \E i \in 1..MaxBatch : Within(MarkUnavailable(i))
    \/ \E i \in 1..MaxBatch : Within(CreateNodeClaim(i))
    \/ \E i \in 1..MaxBatch : Within(DeleteNodeClaim(i))
    \/ \E i \in 1..MaxBatch : Within(DeleteMessage(i))
    \/ Within(Finish)
    \/ Within(Redeliver)

\* Reconcile is invoked again and the workers of a cycle are scheduled: a
\* step that stays possible is eventually taken.
LiveSpec == RedeliveryInit /\ [][LiveNext]_vars /\ WF_vars(LiveNext)

\* ------------------------------------------- listings of any provider ids

\* The longest listing of NodeClaims, and of Nodes.
MaxListed == 2

\* The provider ids a listed record can have: empty (not yet bound), of
\* another provider (malformed for this one), with an empty instance id, or
\* of an instance.
ProviderIDs ==
    { <<>>, <<"gce", "us-east-1a", "i-1">>, <<"aws", "us-east-1a", "">>,
      ProviderID("i-1"), ProviderID("i-2") }

ObjectName(prefix, j) == prefix \o <<"1", "2", "3", "4">>[j]

\* A cycle on one message, over listings of up to MaxListed NodeClaims and
\* Nodes with any of the provider ids, up to the start of the fan-out.
IndexInit ==
    /\ pc = "receive"
    /\ bodies = <<Event("EC2 Instance Rebalance Recommendation", <<"i-1">>, "")>>
    /\ queue = 1..Len(bodies)
    /\ sqsMessages = <<>>
    /\ \E pids \in SeqsUpTo(ProviderIDs, MaxListed) :
         cachedNodeClaims =
             [j \in 1..Len(pids) |->
                NodeClaimObject(ObjectName("nc", j), pids[j], "us-east-1a", "m5.large",
                                "spot", FALSE)]
    /\ \E pids \in SeqsUpTo(ProviderIDs, MaxListed) :
         cachedNodes = [j \in 1..Len(pids) |-> NodeObject(ObjectName("n", j), pids[j])]
    /\ apiServer = [name \in {"nc1", "nc2"} |-> "live"]
    /\ nodeClaimInstanceIDMap = EmptyMap
    /\ nodeInstanceIDMap = EmptyMap
    /\ nextPiece = 1
    /\ handler = <<>>
    /\ errs = <<>>
    /\ trace = <<>>
    /\ unavailableOfferingsCache = {}
    /\ created = <<>>
    /\ deletedMessages = 0
    /\ nodeClaimsTerminated = 0
    /\ calls = <<>>
    /\ cancelled = FALSE
    /\ result = "pending"
    /\ request = NoRequest
    /\ quantities = NoQuantities

IndexNext ==
    \/ Receive
    \/ ListNodeClaims
    \/ ListNodes

IndexSpec == IndexInit /\ [][IndexNext]_vars

\* --------------------------- NodeClaims resolving to the same instance id

\* How many NodeClaims the listing returns.
ListedNodeClaims == 3

\* Provider ids of the listed NodeClaims: two strings for instance i-1,
\* one for i-2, and the empty string of a NodeClaim not yet bound.
SharedProviderIDs ==
    {ProviderID("i-1"), <<"aws", "us-east-1b", "i-1">>, ProviderID("i-2"), <<>>}

\* One message in the queue and ListedNodeClaims NodeClaims, all live, any
\* of them resolving to the same instance id.
DuplicateInit ==
    /\ pc = "receive"
    /\ bodies \in { <<b>> : b \in
                      { Event("EC2 Spot Instance Interruption Warning", <<"i-1">>, ""),
                        Event("AWS Health Event", <<"i-1", "i-2">>, ""),
                        Event("EC2 Instance Rebalance Recommendation", <<"i-1">>, "") } }
    /\ queue = 1..Len(bodies)
    /\ sqsMessages = <<>>
    /\ \E pids \in [1..ListedNodeClaims -> SharedProviderIDs] :
         cachedNodeClaims =
             [j \in 1..ListedNodeClaims |->
                NodeClaimObject(ObjectName("nc", j), pids[j], "us-east-1a", "m5.large",
                                "spot", FALSE)]
    /\ cachedNodes = <<NodeObject("n1", ProviderID("i-1"))>>
    /\ apiServer = [name \in {ObjectName("nc", j) : j \in 1..ListedNodeClaims} |-> "live"]
    /\ nodeClaimInstanceIDMap = EmptyMap
    /\ nodeInstanceIDMap = EmptyMap
    /\ nextPiece = 1
    /\ handler = <<>>
    /\ errs = <<>>
    /\ trace = <<>>
    /\ unavailableOfferingsCache = {}
    /\ created = <<>>
    /\ deletedMessages = 0
    /\ nodeClaimsTerminated = 0
    /\ calls = <<>>
    /\ cancelled = FALSE
    /\ result = "pending"
    /\ request = NoRequest
    /\ quantities = NoQuantities

DuplicateNext ==
    \/ Receive
    \/ ListNodeClaims
    \/ ListNodes
    \/ Cancel
    \/ \E i \in 1..MaxBatch : Start(i)
    \/ \E i \in 1..MaxBatch : MarkUnavailable(i)
    \/ \E i \in 1..MaxBatch : CreateNodeClaim(i)
    \/ \E i \in 1..MaxBatch : DeleteNodeClaim(i)
    \/ \E i \in 1..MaxBatch : DeleteMessage(i)
    \/ Finish

DuplicateSpec == DuplicateInit /\ [][DuplicateNext]_vars

\* ------------------------------- one message with and without its Node

\* The detail types and states of the messages of the pair.
PairedEvents ==
    { <<"EC2 Spot Instance Interruption Warning", "">>,
      <<"AWS Health Event", "">>,
      <<"EC2 Instance Rebalance Recommendation", "">>,
      <<"EC2 Instance State-change Notification", "stopping">>,
      <<"EC2 Instance State-change Notification", "terminated">> }

\* A batch of two messages of the same kind and state, the first for i-1
\* and the second for i-2; nc1 and nc2 are bound to them and are alike in
\* everything but their names and provider ids, on the API server too; a
\* Node is listed for i-1 and none for i-2.
NodeLookupInit ==
    /\ pc = "receive"
    /\ \E e \in PairedEvents :
         bodies = <<Event(e[1], <<"i-1">>, e[2]), Event(e[1], <<"i-2">>, e[2])>>
    /\ queue = 1..Len(bodies)
    /\ sqsMessages = <<>>
    /\ \E zone \in {"", "us-east-1a"}, itype \in {"", "m5.large"}, deleting \in BOOLEAN :
         cachedNodeClaims =
             <<NodeClaimObject("nc1", ProviderID("i-1"), zone, itype, "spot", deleting),
               NodeClaimObject("nc2", ProviderID("i-2"), zone, itype, "spot", deleting)>>
    /\ cachedNodes = <<NodeObject("n1", ProviderID("i-1"))>>
    /\ \E live \in LiveStates(cachedNodeClaims[1]) :
         apiServer = [name \in {"nc1", "nc2"} |-> live]
    /\ nodeClaimInstanceIDMap = EmptyMap
    /\ nodeInstanceIDMap = EmptyMap
    /\ nextPiece = 1
    /\ handler = <<>>
    /\ errs = <<>>
    /\ trace = <<>>
    /\ unavailableOfferingsCache = {}
    /\ created = <<>>
    /\ deletedMessages = 0
    /\ nodeClaimsTerminated = 0
    /\ calls = <<>>
    /\ cancelled = FALSE
    /\ result = "pending"
    /\ request = NoRequest
    /\ quantities = NoQuantities

NodeLookupNext ==
    \/ Receive
    \/ ListNodeClaims
    \/ ListNodes
    \/ Cancel
    \/ \E i \in 1..MaxBatch : Start(i)
    \/ \E i \in 1..MaxBatch : MarkUnavailable(i)
    \/ \E i \in 1..MaxBatch : CreateNodeClaim(i)
    \/ \E i \in 1..MaxBatch : DeleteNodeClaim(i)
    \/ \E i \in 1..MaxBatch : DeleteMessage(i)
    \/ Finish

NodeLookupSpec == NodeLookupInit /\ [][NodeLookupNext]_vars

\* ------------------------------ instancetype: the pod capacity of a node

\* Largest MaximumNetworkInterfaces of a network card.
MaxNetworkInterfaces == 3

\* Largest Ipv4AddressesPerInterface.
MaxAddressesPerInterface == 3

\* Largest --reserved-enis.
MaxReservedENIs == 4

\* The pod count of a node when nothing else decides it (pods, default case).
DefaultPods == 110

\* A pointer: <<>> is nil, <<v>> points to v.
Nil == <<>>

Ptr(v) == <<v>>

\* lo.FromPtr: the value pointed to, the zero value for nil.
FromPtr(p) == IF p = Nil THEN 0 ELSE p[1]

\* lo.Max and lo.Min of a slice of two.
LoMax(a, b) == IF a >= b THEN a ELSE b

LoMin(a, b) == IF a <= b THEN a ELSE b

DigitChars == <<"0", "1", "2", "3", "4", "5", "6", "7", "8", "9">>

RECURSIVE Digits(_)
Digits(n) ==
    IF n < 10 THEN <<DigitChars[n + 1]>>
    ELSE Digits(n \div 10) \o <<DigitChars[(n % 10) + 1]>>

\* fmt.Sprint of an int64: its decimal digits, with a sign when negative.
Sprint(n) == IF n < 0 THEN <<"-">> \o Digits(0 - n) ELSE Digits(n)

DigitValue(c) == (CHOOSE d \in 1..10 : DigitChars[d] = c) - 1

RECURSIVE ParseDigits(_, _)
ParseDigits(s, acc) ==
    IF s = <<>> THEN acc ELSE ParseDigits(Tail(s), acc * 10 + DigitValue(Head(s)))

\* resource.NewQuantity(value, resource.DecimalSI)
NewQuantity(value) == [value |-> value, format |-> "DecimalSI"]

\* resources.Quantity: resource.MustParse of a decimal string.
Quantity(s) ==
    IF Head(s) = "-" THEN NewQuantity(0 - ParseDigits(Tail(s), 0))
    ELSE NewQuantity(ParseDigits(s, 0))

\* ENILimitedPods without the lower bound of 0 on the usable interfaces.
ENILimitedPodsUnclamped(reservedENIs, info) ==
    LET networkInterfaces ==
            info.networkCards[info.defaultNetworkCardIndex + 1].maximumNetworkInterfaces
        usableNetworkInterfaces == networkInterfaces - reservedENIs
    IN IF usableNetworkInterfaces = 0
       THEN NewQuantity(0)
       ELSE Quantity(Sprint(usableNetworkInterfaces * (info.ipv4AddressesPerInterface - 1) + 2))

\* ENILimitedPods(ctx, info), reservedENIs being
\* options.FromContext(ctx).ReservedENIs.
ENILimitedPods(reservedENIs, info) ==
    LET networkInterfaces ==
            info.networkCards[info.defaultNetworkCardIndex + 1].maximumNetworkInterfaces
        usableNetworkInterfaces == LoMax(networkInterfaces - reservedENIs, 0)
    IN IF usableNetworkInterfaces = 0
       THEN NewQuantity(0)
       ELSE Quantity(Sprint(usableNetworkInterfaces * (info.ipv4AddressesPerInterface - 1) + 2))

\* pods taking the larger of the count and podsPerCore times the vCPUs.
podsRaisedByPodsPerCore(reservedENIs, info, amiFamily, maxPods, podsPerCore) ==
    LET count == IF maxPods # Nil THEN FromPtr(maxPods)
                 ELSE IF amiFamily.supportsENILimitedPodDensity
                 THEN ENILimitedPods(reservedENIs, info).value
                 ELSE DefaultPods
    IN IF FromPtr(podsPerCore) > 0 /\ amiFamily.podsPerCoreEnabled
       THEN Quantity(Sprint(LoMax(FromPtr(podsPerCore) * FromPtr(info.defaultVCpus), count)))
       ELSE Quantity(Sprint(count))

\* pods(ctx, info, amiFamily, maxPods, podsPerCore)
pods(reservedENIs, info, amiFamily, maxPods, podsPerCore) ==
    LET count == IF maxPods # Nil THEN FromPtr(maxPods)
                 ELSE IF amiFamily.supportsENILimitedPodDensity
                 THEN ENILimitedPods(reservedENIs, info).value
                 ELSE DefaultPods
    IN IF FromPtr(podsPerCore) > 0 /\ amiFamily.podsPerCoreEnabled
       THEN Quantity(Sprint(LoMin(FromPtr(podsPerCore) * FromPtr(info.defaultVCpus), count)))
       ELSE Quantity(Sprint(count))

\* ec2.InstanceTypeInfo: two network cards of which either is the default,
\* at least one interface per card and one address per interface.
InstanceTypeInfos ==
    [networkCards : [1..2 -> [maximumNetworkInterfaces : 1..MaxNetworkInterfaces]],
     defaultNetworkCardIndex : 0..1,
     ipv4AddressesPerInterface : 1..MaxAddressesPerInterface,
     defaultVCpus : {Nil, Ptr(2)}]

\* amiFamily.FeatureFlags()
FeatureFlags == [supportsENILimitedPodDensity : BOOLEAN, podsPerCoreEnabled : BOOLEAN]

Requests ==
    [asked : {TRUE},
     reservedENIs : 0..MaxReservedENIs,
     info : InstanceTypeInfos,
     amiFamily : FeatureFlags,
     maxPods : {Nil, Ptr(0), Ptr(7)},
     podsPerCore : {Nil, Ptr(0), Ptr(1), Ptr(100)}]

\* The interruption controller, not started.
controller == <<pc, bodies, queue, sqsMessages, cachedNodeClaims, cachedNodes, apiServer,
                nodeClaimInstanceIDMap, nodeInstanceIDMap, nextPiece, handler, errs, trace,
                unavailableOfferingsCache, created, deletedMessages, nodeClaimsTerminated,
                calls, cancelled, result>>

PodsInit ==
    /\ pc = "receive"
    /\ bodies = <<>>
    /\ queue = {}
    /\ sqsMessages = <<>>
    /\ cachedNodeClaims = <<>>
    /\ cachedNodes = <<>>
    /\ apiServer = EmptyMap
    /\ nodeClaimInstanceIDMap = EmptyMap
    /\ nodeInstanceIDMap = EmptyMap
    /\ nextPiece = 1
    /\ handler = <<>>
    /\ errs = <<>>
    /\ trace = <<>>
    /\ unavailableOfferingsCache = {}
    /\ created = <<>>
    /\ deletedMessages = 0
    /\ nodeClaimsTerminated = 0
    /\ calls = <<>>
    /\ cancelled = FALSE
    /\ result = "pending"
    /\ request \in Requests
    /\ quantities = NoQuantities

\* A caller computes the ENI-limited pod density of the instance type.
CallENILimitedPods ==
    /\ request.asked
    /\ "ENILimitedPods" \notin DOMAIN quantities
    /\ quantities' = [x \in DOMAIN quantities \cup {"ENILimitedPods"} |->
                        IF x = "ENILimitedPods"
                        THEN ENILimitedPods(request.reservedENIs, request.info)
                        ELSE quantities[x]]
    /\ UNCHANGED <<controller, request>>

\* A caller computes the pod capacity of the instance type.
CallPods ==
    /\ request.asked
    /\ "pods" \notin DOMAIN quantities
    /\ quantities' = [x \in DOMAIN quantities \cup {"pods"} |->
                        IF x = "pods"
                        THEN pods(request.reservedENIs, request.info, request.amiFamily,
                                  request.maxPods, request.podsPerCore)
                        ELSE quantities[x]]
    /\ UNCHANGED <<controller, request>>

PodsNext ==
    \/ CallENILimitedPods
    \/ CallPods

PodsSpec == PodsInit /\ [][PodsNext]_vars

\* ------------------------------------------------------------ the claims

\* The number of calls of an operation in a handler's trace, and of those
\* with a given result.
NumOp(tr, op) == Cardinality({n \in DOMAIN tr : tr[n].op = op})

NumCalls(tr, op, res) == Cardinality({n \in DOMAIN tr : tr[n].op = op /\ tr[n].res = res})

NumPublished(tr, event) ==
    Cardinality({n \in DOMAIN tr : tr[n].op = "Publish" /\ tr[n].arg = event})

RemediationOps ==
    {"Publish", "actionsPerformed", "MarkUnavailable", "Create", "Delete",
     "NodeClaimsTerminated"}

\* The body of message i of the batch, and whether no parser accepts it.
BodyOf(i) == bodies[sqsMessages[i]]

Unparseable(body) == body.absent \/ body.text # "json"

\* The instance ids message i is about (none when it does not parse).
InstanceIDsOf(i) == IF Unparseable(BodyOf(i)) THEN <<>> ELSE Parse(BodyOf(i)).msg.ids

ClaimNamed(name) ==
    CHOOSE nc \in {cachedNodeClaims[j] : j \in DOMAIN cachedNodeClaims} : nc.name = name

ReceiveFailed == \E n \in DOMAIN calls : calls[n].op = "GetSQSMessages" /\ calls[n].res = "error"

ListFailed == \E n \in DOMAIN calls : calls[n].op = "List" /\ calls[n].res = "error"

RemediationFailed(i) == NumCalls(trace[i], "Delete", "error") > 0

QueueDeleteFailed(i) == NumCalls(trace[i], "DeleteSQSMessage", "error") > 0

\* C1: when the NodeClaim delete issued for a NodeClaim matched by a
\* message returns an error other than NotFound, the queue delete is never
\* invoked for that message in the cycle and Reconcile returns a non-nil
\* error.
RetryOnFailure ==
    \A i \in DOMAIN trace :
        RemediationFailed(i) =>
            /\ NumOp(trace[i], "DeleteSQSMessage") = 0
            /\ sqsMessages[i] \in queue
            /\ pc = "done" => result \notin {"nil", "pending"}

RetryOnFailureWitness ==
    /\ pc = "done"
    /\ \E i \in DOMAIN trace : RemediationFailed(i) /\ handler[i].pc = "done"

\* C2: for every message of the batch the queue delete is invoked at most
\* once in the cycle, and it is invoked exactly when the message failed to
\* parse or its handling returned no remediation error.
DeleteOncePerDelivery ==
    \A i \in DOMAIN trace :
        /\ NumOp(trace[i], "DeleteSQSMessage") <= 1
        /\ pc = "done" =>
             (NumOp(trace[i], "DeleteSQSMessage") = 1 <=>
                 \/ NumCalls(trace[i], "parseMessage", "error") = 1
                 \/ /\ NumCalls(trace[i], "parseMessage", "ok") = 1
                    /\ ~RemediationFailed(i))

DeleteOncePerDeliveryWitness ==
    /\ pc = "done"
    /\ \E i, j \in DOMAIN trace :
         /\ NumCalls(trace[i], "parseMessage", "error") = 1
         /\ NumOp(trace[i], "DeleteSQSMessage") = 1
         /\ RemediationFailed(j)
         /\ NumOp(trace[j], "DeleteSQSMessage") = 0

\* C3: if listing NodeClaims or listing Nodes fails, Reconcile returns a
\* non-nil error and in that cycle no message is parsed, no remediation is
\* executed, no NodeClaim is created or deleted, no cache entry is marked
\* and no queue message is deleted.
ListingFailureAborts ==
    ListFailed =>
        /\ pc = "done"
        /\ result \notin {"nil", "pending"}
        /\ \A i \in DOMAIN trace : trace[i] = <<>> /\ handler[i] = IdleHandler
        /\ created = <<>>
        /\ unavailableOfferingsCache = {}
        /\ queue = 1..Len(bodies)
        /\ deletedMessages = 0
        /\ nodeClaimsTerminated = 0

ListingFailureAbortsWitness ==
    /\ \E n \in DOMAIN calls :
         calls[n].op = "List" /\ calls[n].arg = "Nodes" /\ calls[n].res = "error"
    /\ Len(sqsMessages) > 1
    /\ DOMAIN nodeClaimInstanceIDMap # {}

\* C4: a message whose body is absent or does not parse is deleted from the
\* queue (the queue delete is invoked once) without any remediation for it,
\* the slot of the message holds no error when that queue delete succeeds,
\* and the parse error never makes Reconcile return an error.
ParseFailureDeletes ==
    /\ \A i \in DOMAIN trace :
         (Unparseable(BodyOf(i)) /\ handler[i].pc = "done") =>
             \E res \in {"ok", "error"} :
                 /\ trace[i] = <<Call("parseMessage", "", "", "error"),
                                 Call("DeleteSQSMessage", "", "", res)>>
                 /\ errs[i] = IF res = "ok" THEN "nil" ELSE "deleting sqs message"
    /\ (pc = "done" /\ result # "nil" /\ ~ReceiveFailed /\ ~ListFailed) =>
           \E j \in DOMAIN trace : RemediationFailed(j) \/ QueueDeleteFailed(j)

ParseFailureDeletesWitness ==
    /\ pc = "done"
    /\ result = "nil"
    /\ \E i, j \in DOMAIN trace :
         /\ BodyOf(i).absent
         /\ ~BodyOf(j).absent /\ Unparseable(BodyOf(j))
         /\ handler[i].pc = "done" /\ handler[j].pc = "done"
         /\ sqsMessages[i] \notin queue /\ sqsMessages[j] \notin queue

\* A cycle that has ended after both listings succeeded, on a batch in which
\* no message names an instance of the NodeClaim index.
CorrelationMissBatch ==
    /\ pc = "done"
    /\ Len(sqsMessages) > 0
    /\ ~ListFailed
    /\ \A i \in DOMAIN trace : \A k \in DOMAIN InstanceIDsOf(i) :
         InstanceIDsOf(i)[k] \notin DOMAIN nodeClaimInstanceIDMap

NoRemediation ==
    /\ \A i \in DOMAIN trace : \A n \in DOMAIN trace[i] : trace[i][n].op \notin RemediationOps
    /\ created = <<>>
    /\ unavailableOfferingsCache = {}
    /\ nodeClaimsTerminated = 0

\* C5 as stated: in a batch in which no message's instance identifier is in
\* the NodeClaim index, no remediation call is made, nothing is created,
\* deleted or marked, every message is deleted from the queue and Reconcile
\* returns no error (read for a cycle that is not cancelled).
CorrelationMissSilentAsStated ==
    (CorrelationMissBatch /\ ~cancelled) =>
        /\ NoRemediation
        /\ queue = {}
        /\ result = "nil"

\* C5 as amended: in such a batch no remediation call is made and nothing is
\* created, deleted or marked; the queue delete is invoked exactly once for
\* every message whose handler started; and when the cycle is not cancelled
\* and every queue delete succeeds, every message is deleted from the queue
\* and Reconcile returns no error.
CorrelationMissSilent ==
    CorrelationMissBatch =>
        /\ NoRemediation
        /\ \A i \in DOMAIN trace :
             /\ handler[i].pc = "done" => NumOp(trace[i], "DeleteSQSMessage") = 1
             /\ handler[i].pc = "queued" => cancelled /\ trace[i] = <<>>
        /\ (~cancelled /\ \A i \in DOMAIN trace : ~QueueDeleteFailed(i)) =>
               queue = {} /\ result = "nil"

CorrelationMissSilentWitness ==
    /\ CorrelationMissBatch
    /\ Len(sqsMessages) > 1
    /\ \A i \in DOMAIN trace : Len(InstanceIDsOf(i)) > 0
    /\ queue = {}
    /\ result = "nil"

\* C6 as stated: Reconcile (once it has its batch) returns a non-nil error
\* only when a cluster-state listing failed or the remediation of at least
\* one message failed.
ErrorOnlyFromListingOrRemediation ==
    (pc = "done" /\ ~ReceiveFailed /\ result # "nil") =>
        \/ ListFailed
        \/ \E i \in DOMAIN trace : RemediationFailed(i)

\* C6 as amended: Reconcile returns a non-nil error exactly when receiving
\* the batch failed, a listing failed, the remediation of a message failed
\* or the queue delete of a message failed; in every other outcome (parse
\* failures, correlation misses, failed replacement creations) it returns no
\* error.
ErrorSources ==
    pc = "done" =>
        (result # "nil" <=>
            \/ ReceiveFailed
            \/ ListFailed
            \/ \E i \in DOMAIN trace : RemediationFailed(i)
            \/ \E i \in DOMAIN trace : QueueDeleteFailed(i))

ErrorSourcesWitness ==
    /\ pc = "done"
    /\ result # "nil"
    /\ ~ListFailed
    /\ \A i \in DOMAIN trace : ~RemediationFailed(i)
    /\ \E i, j \in DOMAIN trace :
         /\ QueueDeleteFailed(i)
         /\ NumCalls(trace[i], "parseMessage", "ok") = 1
         /\ NumCalls(trace[j], "Create", "error") = 1

\* C7: for a matched NodeClaim whose deletion marker is already set, the
\* handler performs no mutation, whatever the kind of the message: no
\* NodeClaim delete, no replacement NodeClaim creation, no cache mark.
NoMutationForDeletingNodeClaim ==
    \A i \in DOMAIN trace : \A n \in DOMAIN trace[i] :
        trace[i][n].op \in {"Delete", "Create", "MarkUnavailable"} =>
            ~ClaimNamed(trace[i][n].on).deletionTimestamp

\* C8: when deleteNodeClaim runs on a NodeClaim whose deletion marker is
\* already set it returns success, issues no delete call, publishes no
\* terminating-on-interruption event and does not increment the termination
\* counter.
IdempotentDeletion ==
    \A i \in DOMAIN trace :
        /\ \A n \in DOMAIN trace[i] :
             (\/ trace[i][n].op \in {"Delete", "NodeClaimsTerminated"}
              \/ trace[i][n].op = "Publish" /\ trace[i][n].arg = "TerminatingOnInterruption")
             => ~ClaimNamed(trace[i][n].on).deletionTimestamp
        /\ (\A n \in DOMAIN trace[i] :
               trace[i][n].op = "actionsPerformed"
               => ClaimNamed(trace[i][n].on).deletionTimestamp)
           => ~handler[i].err /\ errs[i] # "handling message"

IdempotentDeletionWitness ==
    \E i \in DOMAIN trace :
        /\ handler[i].pc = "done"
        /\ \E n \in DOMAIN trace[i] :
             /\ trace[i][n].op = "actionsPerformed"
             /\ trace[i][n].arg = CordonAndDrain
             /\ ClaimNamed(trace[i][n].on).deletionTimestamp
        /\ NumOp(trace[i], "Delete") = 0
        /\ NumCalls(trace[i], "DeleteSQSMessage", "ok") = 1
        /\ nodeClaimsTerminated = 0

\* C9: when the NodeClaim delete returns NotFound the handler returns
\* success, so the queue message is deleted, and neither the
\* terminating-on-interruption event nor the termination counter is
\* produced (they follow a successful delete only); any other delete error
\* is the handler's error.
NotFoundIsSuccess ==
    \A i \in DOMAIN trace :
        /\ NumOp(trace[i], "NodeClaimsTerminated") = NumCalls(trace[i], "Delete", "ok")
        /\ NumPublished(trace[i], "TerminatingOnInterruption") = NumCalls(trace[i], "Delete", "ok")
        /\ handler[i].err <=> NumCalls(trace[i], "Delete", "error") > 0
        /\ handler[i].pc = "done" =>
             /\ errs[i] = "handling message" <=> NumCalls(trace[i], "Delete", "error") > 0
             /\ NumCalls(trace[i], "Delete", "error") = 0 => NumOp(trace[i], "DeleteSQSMessage") = 1

NotFoundIsSuccessWitness ==
    /\ pc = "done"
    /\ result = "nil"
    /\ \E i \in DOMAIN trace :
         /\ NumCalls(trace[i], "Delete", "NotFound") = 1
         /\ NumOp(trace[i], "Delete") = 1
         /\ NumOp(trace[i], "NodeClaimsTerminated") = 0
         /\ sqsMessages[i] \notin queue

\* A SpotInterruption message for one instance whose NodeClaim has no
\* deletion marker and carries a zone and an instance-type label, handled to
\* the end with every collaborator call succeeding.
SpotHappyPath(i) ==
    /\ pc = "done"
    /\ handler[i].pc = "done"
    /\ ~Unparseable(BodyOf(i))
    /\ Parse(BodyOf(i)).msg.kind = SpotInterruptionKind
    /\ Len(InstanceIDsOf(i)) = 1
    /\ InstanceIDsOf(i)[1] \in DOMAIN nodeClaimInstanceIDMap
    /\ LET nc == cachedNodeClaims[nodeClaimInstanceIDMap[InstanceIDsOf(i)[1]]]
       IN /\ ~nc.deletionTimestamp
          /\ nc.labels.zone # ""
          /\ nc.labels.instanceType # ""
    /\ \A n \in DOMAIN trace[i] : trace[i][n].res \notin {"error", "NotFound"}

\* C10: the spot interruption happy path ends with the (instance type, zone,
\* spot) offering marked unavailable, exactly one replacement NodeClaim
\* created, the original NodeClaim deleted, the termination counter
\* incremented exactly once and the queue message deleted.
SpotInterruptionHappyPath ==
    \A i \in DOMAIN trace :
        SpotHappyPath(i) =>
            LET nc == cachedNodeClaims[nodeClaimInstanceIDMap[InstanceIDsOf(i)[1]]]
            IN /\ [reason |-> SpotInterruptionKind, instanceType |-> nc.labels.instanceType,
                   zone |-> nc.labels.zone, capacityType |-> "spot"]
                     \in unavailableOfferingsCache
               /\ NumOp(trace[i], "MarkUnavailable") = 1
               /\ NumCalls(trace[i], "Create", "ok") = 1
               /\ NumOp(trace[i], "Create") = 1
               /\ \E n \in DOMAIN created :
                    /\ created[n].generateName = nc.generateName
                    /\ created[n].labels = nc.labels
                    /\ created[n].spec = nc.spec
               /\ NumCalls(trace[i], "Delete", "ok") = 1
               /\ NumOp(trace[i], "Delete") = 1
               /\ apiServer[nc.name] # "live"
               /\ NumOp(trace[i], "NodeClaimsTerminated") = 1
               /\ nodeClaimsTerminated >= 1
               /\ NumCalls(trace[i], "DeleteSQSMessage", "ok") = 1
               /\ sqsMessages[i] \notin queue
               /\ errs[i] = "nil"

SpotInterruptionHappyPathWitness ==
    /\ Len(sqsMessages) = 1
    /\ SpotHappyPath(1)
    /\ result = "nil"
    /\ Len(created) = 1
    /\ nodeClaimsTerminated = 1

\* The kinds of the messages package, and a kind no parser produces.
MessageKinds ==
    {ScheduledChangeKind, SpotInterruptionKind, RebalanceRecommendationKind,
     StateChangeKind, NoOpKind}

UnknownKind == "UnknownKind"

\* C11: for every message kind the action is CordonAndDrain exactly for
\* ScheduledChange, SpotInterruption and StateChange and NoAction for
\* RebalanceRecommendation, NoOp and an unknown kind, whatever else the
\* message carries; the mapping always yields one of the two actions (it has
\* no error outcome), and the action a handler counts for a matched
\* NodeClaim is the one of its message's kind.
ActionMappingExhaustive ==
    /\ \A kind \in MessageKinds \cup {UnknownKind} :
       \A ids \in {<<>>, <<"i-1">>, <<"i-1", "i-2">>} :
       \A state \in {"", "stopping", "terminated"} :
         LET action == actionForMessage([kind |-> kind, ids |-> ids, state |-> state])
         IN /\ action \in {CordonAndDrain, NoAction}
            /\ action = CordonAndDrain <=>
                 kind \in {ScheduledChangeKind, SpotInterruptionKind, StateChangeKind}
    /\ \A i \in DOMAIN trace : \A n \in DOMAIN trace[i] :
         trace[i][n].op = "actionsPerformed" =>
             /\ ~Unparseable(BodyOf(i))
             /\ trace[i][n].arg =
                  IF Parse(BodyOf(i)).msg.kind \in
                       {ScheduledChangeKind, SpotInterruptionKind, StateChangeKind}
                  THEN CordonAndDrain ELSE NoAction

ActionMappingExhaustiveWitness ==
    /\ pc = "done"
    /\ \E i, j \in DOMAIN trace :
         /\ Parse(BodyOf(i)).msg.kind = StateChangeKind
         /\ NumCalls(trace[i], "actionsPerformed", "") = 1
         /\ NumOp(trace[i], "Delete") = 1
         /\ Parse(BodyOf(j)).msg.kind = RebalanceRecommendationKind
         /\ NumCalls(trace[j], "actionsPerformed", "") = 1
         /\ NumOp(trace[j], "Delete") = 0

\* The kind of message i of the batch (NoOp when it does not parse).
KindOf(i) == IF Unparseable(BodyOf(i)) THEN NoOpKind ELSE Parse(BodyOf(i)).msg.kind

HasOfferingLabels(nc) == nc.labels.zone # "" /\ nc.labels.instanceType # ""

\* The entry of the availability cache for the offering of a NodeClaim.
SpotOfferingOf(nc) ==
    [reason |-> SpotInterruptionKind, instanceType |-> nc.labels.instanceType,
     zone |-> nc.labels.zone, capacityType |-> "spot"]

\* C12: a handler marks the availability cache if and only if its message is
\* a SpotInterruption and the matched NodeClaim has a non-empty zone label
\* and a non-empty instance-type label; the entry always has capacity type
\* spot, whatever the NodeClaim's capacity-type label, and the message kind
\* as its reason; no handler of another kind writes to the cache.
CacheMarkedOnlyForSpot ==
    /\ \A i \in DOMAIN trace : \A n \in DOMAIN trace[i] :
         /\ trace[i][n].op = "MarkUnavailable" =>
              /\ KindOf(i) = SpotInterruptionKind
              /\ HasOfferingLabels(ClaimNamed(trace[i][n].on))
              /\ SpotOfferingOf(ClaimNamed(trace[i][n].on)) \in unavailableOfferingsCache
         \* the creation follows the marking step of the same NodeClaim
         /\ trace[i][n].op = "Create" =>
              (HasOfferingLabels(ClaimNamed(trace[i][n].on)) <=>
                  /\ trace[i][n - 1].op = "MarkUnavailable"
                  /\ trace[i][n - 1].on = trace[i][n].on)
         /\ (trace[i][n].op = "actionsPerformed" /\ KindOf(i) # SpotInterruptionKind
               /\ handler[i].pc = "done") =>
              NumOp(trace[i], "MarkUnavailable") = 0
    /\ \A e \in unavailableOfferingsCache :
         /\ e.capacityType = "spot"
         /\ e.reason = SpotInterruptionKind
         /\ \E i \in DOMAIN trace : \E n \in DOMAIN trace[i] :
              /\ trace[i][n].op = "MarkUnavailable"
              /\ e = SpotOfferingOf(ClaimNamed(trace[i][n].on))

CacheMarkedOnlyForSpotWitness ==
    /\ pc = "done"
    /\ SpotOfferingOf(SecondNodeClaim) \in unavailableOfferingsCache
    /\ SecondNodeClaim.labels.capacityType # "spot"
    /\ \E i \in DOMAIN trace :
         /\ NumOp(trace[i], "Create") = 1
         /\ NumOp(trace[i], "MarkUnavailable") = 0

CreateFailed(i) == NumCalls(trace[i], "Create", "error") > 0

\* C13: a failed creation of the replacement NodeClaim does not change the
\* outcome of the handler: the delete of the original NodeClaim is still
\* attempted (issued unless its deletion marker is set), the handler's error
\* is exactly that of the delete, the queue delete is invoked exactly when
\* the delete did not fail, and the cycle returns no error when nothing but
\* creations failed.
CreateFailureSwallowed ==
    /\ \A i \in DOMAIN trace :
         CreateFailed(i) =>
             /\ handler[i].err <=> RemediationFailed(i)
             /\ handler[i].pc = "done" =>
                  /\ \A n \in DOMAIN trace[i] :
                       (trace[i][n].op = "Create" /\ trace[i][n].res = "error"
                          /\ ~ClaimNamed(trace[i][n].on).deletionTimestamp) =>
                           /\ n < Len(trace[i])
                           /\ trace[i][n + 1].op = "Delete"
                           /\ trace[i][n + 1].on = trace[i][n].on
                  /\ errs[i] = "handling message" <=> RemediationFailed(i)
                  /\ NumOp(trace[i], "DeleteSQSMessage") = 1 <=> ~RemediationFailed(i)
                  /\ NumCalls(trace[i], "DeleteSQSMessage", "ok") = 1 =>
                       errs[i] = "nil" /\ sqsMessages[i] \notin queue
    /\ (/\ pc = "done"
        /\ ~ReceiveFailed
        /\ ~ListFailed
        /\ \A i \in DOMAIN trace : ~RemediationFailed(i) /\ ~QueueDeleteFailed(i))
       => result = "nil"

CreateFailureSwallowedWitness ==
    /\ pc = "done"
    /\ result = "nil"
    /\ \E i \in DOMAIN trace :
         /\ CreateFailed(i)
         /\ NumCalls(trace[i], "Delete", "ok") = 1
         /\ sqsMessages[i] \notin queue
    /\ created = <<>>

\* What a replacement of a NodeClaim carries: its generate-name, annotations,
\* labels, owner references and spec, and nothing of its name, deletion
\* marker or status.
IsReplacementOf(new, nc) ==
    /\ new.generateName = nc.generateName
    /\ new.annotations = nc.annotations
    /\ new.labels = nc.labels
    /\ new.ownerReferences = nc.ownerReferences
    /\ new.spec = nc.spec
    /\ new.name = ""
    /\ new.deletionTimestamp = FALSE
    /\ new.status = [providerID |-> <<>>]

ReplacementsAreCopies ==
    /\ \A i \in DOMAIN trace : \A n \in DOMAIN trace[i] :
         trace[i][n].op = "Create" => KindOf(i) = SpotInterruptionKind
    /\ \A n \in DOMAIN created :
         \E i \in DOMAIN trace : \E m \in DOMAIN trace[i] :
           /\ trace[i][m].op = "Create"
           /\ trace[i][m].res = "ok"
           /\ IsReplacementOf(created[n], ClaimNamed(trace[i][m].on))
    /\ Len(created) =
         Cardinality(UNION { { <<i, m>> : m \in { k \in DOMAIN trace[i] :
                                                    /\ trace[i][k].op = "Create"
                                                    /\ trace[i][k].res = "ok" } } :
                             i \in DOMAIN trace })

\* C14: a replacement NodeClaim is created only by the handler of a
\* SpotInterruption message; it carries exactly the interrupted NodeClaim's
\* generate-name, annotations, labels, owner references and spec, with its
\* name, deletion marker and status unset; and no step changes the listed
\* NodeClaim objects, the creation changing nothing of the interrupted
\* NodeClaim on the API server either.
ReplacementOnlyForSpot ==
    /\ []ReplacementsAreCopies
    /\ [][/\ cachedNodeClaims' = cachedNodeClaims
          /\ Len(created') > Len(created) => apiServer' = apiServer]_vars

ReplacementOnlyForSpotWitness ==
    /\ pc = "done"
    /\ Len(created) = 1
    /\ cachedNodeClaims[1].deletionTimestamp
    /\ cachedNodeClaims[1].status.providerID # <<>>
    /\ IsReplacementOf(created[1], cachedNodeClaims[1])
    /\ created[1] # cachedNodeClaims[1]

\* The notification the kind of message i calls for.
NotificationFor(i) ==
    CASE KindOf(i) = RebalanceRecommendationKind -> "RebalanceRecommendation"
      [] KindOf(i) = ScheduledChangeKind -> "Unhealthy"
      [] KindOf(i) = SpotInterruptionKind -> "SpotInterrupted"
      [] KindOf(i) = StateChangeKind /\ BodyOf(i).state \in {"stopping", "stopped"} -> "Stopping"
      [] KindOf(i) = StateChangeKind /\ BodyOf(i).state \notin {"stopping", "stopped"} -> "Terminating"
      [] OTHER -> "none"

\* The positions of message i's instance ids that have a NodeClaim in the index.
MatchedPositions(i) ==
    { k \in DOMAIN InstanceIDsOf(i) : InstanceIDsOf(i)[k] \in DOMAIN nodeClaimInstanceIDMap }

NoActionIsNoMutation ==
    \A i \in DOMAIN trace :
        (KindOf(i) = RebalanceRecommendationKind /\ MatchedPositions(i) # {}) =>
            /\ \A n \in DOMAIN trace[i] :
                 /\ trace[i][n].op \notin
                      {"Delete", "Create", "MarkUnavailable", "NodeClaimsTerminated"}
                 /\ trace[i][n].op = "actionsPerformed" => trace[i][n].arg = NoAction
            /\ ~handler[i].err
            /\ errs[i] # "handling message"
            /\ handler[i].pc = "done" =>
                 /\ NumOp(trace[i], "actionsPerformed") = 1
                 /\ NumOp(trace[i], "DeleteSQSMessage") = 1
                 /\ NumCalls(trace[i], "DeleteSQSMessage", "ok") = 1 =>
                      errs[i] = "nil" /\ sqsMessages[i] \notin queue
            /\ (Len(sqsMessages) = 1 /\ nextPiece > 1) =>
                 /\ created = <<>>
                 /\ unavailableOfferingsCache = {}
                 /\ nodeClaimsTerminated = 0
                 /\ \A j \in DOMAIN cachedNodeClaims :
                      apiServer[cachedNodeClaims[j].name] \in LiveStates(cachedNodeClaims[j])

NoActionIsNoMutationWitness ==
    /\ pc = "done"
    /\ result = "nil"
    /\ Len(sqsMessages) = 1
    /\ KindOf(1) = RebalanceRecommendationKind
    /\ NumCalls(trace[1], "actionsPerformed", "") = 1
    /\ NumPublished(trace[1], "RebalanceRecommendation") = 1
    /\ queue = {}
    /\ apiServer["nc1"] = "live"

\* C17: at most 10 message handlers are in flight at any time, whatever the
\* size of the batch; no message is taken by more than one handler; and when
\* the cycle reaches the fan-out and is not cancelled, every message of the
\* batch has been handled by exactly one handler when Reconcile returns.
BoundedFanout ==
    /\ Cardinality(InFlight) <= 10
    /\ \A i \in DOMAIN trace : NumOp(trace[i], "parseMessage") <= 1
    /\ (pc = "done" /\ ~cancelled /\ ~ReceiveFailed /\ ~ListFailed) =>
         /\ DOMAIN trace = 1..Len(bodies)
         /\ \A i \in DOMAIN trace :
              /\ handler[i].pc = "done"
              /\ NumOp(trace[i], "parseMessage") = 1
              /\ sqsMessages[i] = i

BoundedFanoutWitness ==
    /\ Len(sqsMessages) > 10
    /\ Cardinality(InFlight) = 10
    /\ nextPiece = 11
    /\ ~cancelled

\* C18: once the cycle's context is cancelled during the fan-out, the queue
\* delete is never invoked for a message whose handler did not complete
\* successfully: a message whose handler never started has had no call made
\* for it and is still in the queue, and so is a message whose remediation
\* returned an error; the queue delete is invoked only after parseMessage
\* failed or handleMessage returned no error.
NoDeleteUnderCancellation ==
    cancelled =>
        \A i \in DOMAIN trace :
            /\ handler[i].pc = "queued" =>
                 /\ trace[i] = <<>>
                 /\ i >= nextPiece
                 /\ sqsMessages[i] \in queue
            /\ (RemediationFailed(i) \/ handler[i].err) =>
                 /\ NumOp(trace[i], "DeleteSQSMessage") = 0
                 /\ sqsMessages[i] \in queue
            /\ NumOp(trace[i], "DeleteSQSMessage") > 0 =>
                 \/ NumCalls(trace[i], "parseMessage", "error") = 1
                 \/ /\ NumCalls(trace[i], "parseMessage", "ok") = 1
                    /\ ~handler[i].err
                    /\ ~RemediationFailed(i)
            /\ sqsMessages[i] \notin queue =>
                 NumCalls(trace[i], "DeleteSQSMessage", "ok") = 1

NoDeleteUnderCancellationWitness ==
    /\ pc = "done"
    /\ cancelled
    /\ \E i, j \in DOMAIN trace :
         /\ RemediationFailed(i)
         /\ handler[i].pc = "done"
         /\ handler[j].pc = "queued"
    /\ queue = 1..Len(bodies)

\* C19: when the context is cancelled during the fan-out, after a handler
\* has run and with messages of the batch left unprocessed, Reconcile
\* returns a non-nil error.
CancellationSurfaced ==
    (/\ pc = "done"
     /\ cancelled
     /\ \E i \in DOMAIN handler : handler[i].pc = "done"
     /\ \E j \in DOMAIN handler : handler[j].pc = "queued")
    => result # "nil"

\* How often the batch was received, and how often an operation was called
\* for a NodeClaim in this delivery and over all deliveries.
Deliveries == NumCalls(calls, "GetSQSMessages", "ok")

NumOn(tr, op, name) == Cardinality({n \in DOMAIN tr : tr[n].op = op /\ tr[n].on = name})

NumOnOverall(op, name) == NumOn(calls \o Flatten(trace), op, name)

\* C20: within one delivery of a message at most one availability-cache
\* mark and at most one creation of a replacement NodeClaim are attempted
\* for each instance id of the message (for the NodeClaim matched by it);
\* over the deliveries of the message they are attempted at most once per
\* delivery.
SideEffectsOncePerDelivery ==
    \A name \in {"nc1", "nc2"} :
        /\ \A i \in DOMAIN trace :
             /\ NumOn(trace[i], "MarkUnavailable", name) <= 1
             /\ NumOn(trace[i], "Create", name) <= 1
             /\ NumOp(trace[i], "MarkUnavailable") <= Len(InstanceIDsOf(i))
             /\ NumOp(trace[i], "Create") <= Len(InstanceIDsOf(i))
        /\ NumOnOverall("MarkUnavailable", name) <= Deliveries
        /\ NumOnOverall("Create", name) <= Deliveries
        /\ Len(created) <= Deliveries

\* The side effects repeated by a redelivery: two deliveries of the message,
\* each with its mark and its replacement.
SideEffectsOncePerDeliveryWitness ==
    /\ pc = "done"
    /\ Deliveries = 2
    /\ Len(bodies) = 1
    /\ NumOnOverall("MarkUnavailable", "nc1") = 2
    /\ NumOnOverall("Create", "nc1") = 2
    /\ Len(created) = 2
    /\ Cardinality(unavailableOfferingsCache) = 1

\* A body that parses to a NoOp message.
ParsesToNoOp(i) == ~Unparseable(BodyOf(i)) /\ KindOf(i) = NoOpKind

\* C21: a message parsed as NoOpKind is fully handled at once: its handler
\* looks up no instance id, publishes no notification, makes no remediation
\* call and mutates neither cluster state nor the cache; the only calls made
\* for it are the received-messages counter and the queue delete, after
\* which the message has left the queue (when that call succeeds).
NoOpFullyHandled ==
    \A i \in DOMAIN trace :
        (ParsesToNoOp(i) /\ handler[i].pc # "queued") =>
            /\ handler[i].k = 0
            /\ ~handler[i].err
            /\ errs[i] # "handling message"
            /\ \E tail \in {<<>>, <<Call("DeleteSQSMessage", "", "", "ok")>>,
                            <<Call("DeleteSQSMessage", "", "", "error")>>} :
                 trace[i] = <<Call("parseMessage", "", "", "ok"),
                              Call("receivedMessages", NoOpKind, "", "")>> \o tail
            /\ handler[i].pc = "done" =>
                 /\ NumOp(trace[i], "DeleteSQSMessage") = 1
                 /\ NumCalls(trace[i], "DeleteSQSMessage", "ok") = 1 =>
                      errs[i] = "nil" /\ sqsMessages[i] \notin queue
            /\ Len(sqsMessages) = 1 =>
                 /\ created = <<>>
                 /\ unavailableOfferingsCache = {}
                 /\ nodeClaimsTerminated = 0
                 /\ \A j \in DOMAIN cachedNodeClaims :
                      apiServer[cachedNodeClaims[j].name] \in LiveStates(cachedNodeClaims[j])

NoOpFullyHandledWitness ==
    /\ pc = "done"
    /\ result = "nil"
    /\ Len(sqsMessages) = 1
    /\ ParsesToNoOp(1)
    /\ BodyOf(1).ids[1] \in DOMAIN nodeClaimInstanceIDMap
    /\ queue = {}
    /\ deletedMessages = 1

\* The queue answered GetSQSMessages with an empty batch.
EmptyBatchReceived ==
    /\ NumCalls(calls, "GetSQSMessages", "ok") > 0
    /\ sqsMessages = <<>>

\* C22: when the queue returns an empty batch Reconcile returns success at
\* once: no listing of NodeClaims or Nodes is made, no handler runs, and the
\* cluster state, the cache and the queue are as they were.
EmptyBatchIsNoOp ==
    EmptyBatchReceived =>
        /\ pc = "done"
        /\ result = "nil"
        /\ calls = <<Call("GetSQSMessages", "", "", "ok")>>
        /\ nodeClaimInstanceIDMap = EmptyMap
        /\ nodeInstanceIDMap = EmptyMap
        /\ handler = <<>> /\ trace = <<>> /\ errs = <<>>
        /\ created = <<>>
        /\ unavailableOfferingsCache = {}
        /\ deletedMessages = 0
        /\ nodeClaimsTerminated = 0
        /\ queue = 1..Len(bodies)
        /\ \A j \in DOMAIN cachedNodeClaims :
             apiServer[cachedNodeClaims[j].name] \in LiveStates(cachedNodeClaims[j])

EmptyBatchIsNoOpWitness ==
    /\ EmptyBatchReceived
    /\ bodies = <<>>
    /\ pc = "done"
    /\ cachedNodeClaims[1].status.providerID # <<>>

\* Message m of the queue is in the batch of the current cycle.
Received(m) == \E k \in DOMAIN sqsMessages : sqsMessages[k] = m

\* No step is made twice within a cycle: a handler calls the NodeClaim
\* delete and the creation at most once for a NodeClaim and the queue delete
\* at most once, and a cycle makes each listing at most once.
NoRetryInCycle ==
    /\ \A i \in DOMAIN trace :
         /\ NumOp(trace[i], "DeleteSQSMessage") <= 1
         /\ \A name \in {"nc1", "nc2"} :
              /\ NumOn(trace[i], "Delete", name) <= 1
              /\ NumOn(trace[i], "Create", name) <= 1
    /\ \A kind \in {"NodeClaims", "Nodes"} :
         Cardinality({n \in DOMAIN calls : calls[n].op = "List" /\ calls[n].arg = kind})
             <= NumCalls(calls, "GetSQSMessages", "ok")

\* C23: when Reconcile is invoked again for as long as a message is in the
\* queue and the calls to the queue and to the cluster fail only finitely
\* often, every message that was received is eventually deleted from the
\* queue; and no failed step is made again within the cycle it failed in.
EventualAcknowledgement ==
    /\ []NoRetryInCycle
    /\ \A m \in 1..MaxBatch : Received(m) ~> (m \notin queue)

EventualAcknowledgementWitness ==
    /\ pc = "done"
    /\ queue = {}
    /\ NumOp(calls, "GetSQSMessages") = 2
    /\ NumCalls(calls, "Delete", "error") = 1
    /\ NumCalls(trace[1], "DeleteSQSMessage", "ok") = 1

\* A provider id that is non-empty and parses to a non-empty instance id.
ValidProviderID(p) ==
    /\ p # <<>>
    /\ ~ParseInstanceID(p).err
    /\ ParseInstanceID(p).id # ""

\* An index over the listed provider ids: its keys are exactly the instance
\* ids of the valid ones, every key maps to a record whose provider id
\* parses to that key, and every valid record is the entry of its instance
\* id unless a later record has the same instance id.
ExactIndex(m, pids) ==
    /\ DOMAIN m = { ParseInstanceID(pids[j]).id :
                      j \in {k \in DOMAIN pids : ValidProviderID(pids[k])} }
    /\ \A key \in DOMAIN m :
         /\ m[key] \in DOMAIN pids
         /\ ValidProviderID(pids[m[key]])
         /\ ParseInstanceID(pids[m[key]]).id = key
    /\ \A j \in DOMAIN pids :
         (/\ ValidProviderID(pids[j])
          /\ \A k \in DOMAIN pids :
               k > j => ParseInstanceID(pids[k]).id # ParseInstanceID(pids[j]).id)
         => m[ParseInstanceID(pids[j]).id] = j

\* C24: the two indexes hold exactly the listed NodeClaims and Nodes whose
\* provider id is non-empty and parses to a non-empty instance id, every
\* key mapping to a record whose provider id parses to that key; a record
\* with an empty or malformed provider id is skipped and makes no error:
\* Reconcile fails before the fan-out only when a call failed.
IndexesExact ==
    /\ pc \in {"listNodes", "fanout"} =>
         ExactIndex(nodeClaimInstanceIDMap,
                    [j \in DOMAIN cachedNodeClaims |-> cachedNodeClaims[j].status.providerID])
    /\ pc = "fanout" =>
         ExactIndex(nodeInstanceIDMap,
                    [j \in DOMAIN cachedNodes |-> cachedNodes[j].spec.providerID])
    /\ (pc = "done" /\ result # "nil") => ReceiveFailed \/ ListFailed
    /\ (calls # <<>> /\ \A n \in DOMAIN calls : calls[n].res = "ok") =>
         pc = IF Len(calls) = 1 THEN "listNodeClaims"
              ELSE IF Len(calls) = 2 THEN "listNodes" ELSE "fanout"

IndexesExactWitness ==
    /\ pc = "fanout"
    /\ Len(cachedNodeClaims) = 2
    /\ cachedNodeClaims[1].status.providerID = <<"aws", "us-east-1a", "">>
    /\ DOMAIN nodeClaimInstanceIDMap = {"i-1"}
    /\ Len(cachedNodes) = 2
    /\ cachedNodes[1].spec.providerID = <<"gce", "us-east-1a", "i-1">>
    /\ cachedNodes[2].spec.providerID = <<>>
    /\ nodeInstanceIDMap = EmptyMap

\* The place of a call in the handling of one NodeClaim.
StepRank(call) ==
    CASE call.op = "Publish" /\ call.arg # "TerminatingOnInterruption" -> 1
      [] call.op = "actionsPerformed" -> 2
      [] call.op = "MarkUnavailable" -> 3
      [] call.op = "Create" -> 4
      [] call.op = "Delete" -> 5
      [] call.op = "Publish" /\ call.arg = "TerminatingOnInterruption" -> 6
      [] call.op = "NodeClaimsTerminated" -> 7
      [] OTHER -> 0

\* C25: in the handling of a message the calls for one matched NodeClaim are
\* made in the order notification, actions-performed counter, cache mark,
\* replacement creation, NodeClaim delete (each at most once, the NodeClaims
\* of a message one after the other), and the queue delete is the last call
\* of the handler, made only after every NodeClaim delete of the message
\* returned success.
StepsInOrder ==
    \A i \in DOMAIN trace :
        /\ \A n, m \in DOMAIN trace[i] :
             (n < m /\ trace[i][n].on # "" /\ trace[i][m].on # "") =>
                 IF trace[i][n].on = trace[i][m].on
                 THEN StepRank(trace[i][n]) < StepRank(trace[i][m])
                 ELSE \A k \in DOMAIN trace[i] :
                        (k > m /\ trace[i][k].on # "") => trace[i][k].on # trace[i][n].on
        /\ \A n \in DOMAIN trace[i] :
             /\ trace[i][n].on # "" => n > 2 /\ StepRank(trace[i][n]) > 0
             /\ trace[i][n].op = "DeleteSQSMessage" =>
                  /\ n = Len(trace[i])
                  /\ \A m \in 1..(n - 1) :
                       trace[i][m].op = "Delete" => trace[i][m].res \in {"ok", "NotFound"}

StepsInOrderWitness ==
    \E i \in DOMAIN trace :
        /\ Len(trace[i]) = 11
        /\ [n \in 1..11 |-> trace[i][n].op] =
             <<"parseMessage", "receivedMessages", "Publish", "actionsPerformed",
               "MarkUnavailable", "Create", "Delete", "Publish", "NodeClaimsTerminated",
               "messageLatency", "DeleteSQSMessage">>
        /\ \A n \in 3..9 : trace[i][n].on = "nc1"

\* Detail types no registered sub-parser claims.
UnclaimedDetailTypes ==
    {"Unrecognized Detail Type", "", "EC2 Instance Launch Successful",
     "EC2 Spot Instance Request Fulfillment"}

FailedMessage(i) ==
    NumCalls(trace[i], "parseMessage", "error") = 1 \/ RemediationFailed(i)

\* Message j was handled to the end in this cycle and, its own handling
\* having succeeded, the queue delete was invoked for it, removing it from
\* the queue unless that delete itself failed.
HandledOnItsOwn(j) ==
    /\ handler[j].pc = "done"
    /\ NumOp(trace[j], "parseMessage") = 1
    /\ (NumCalls(trace[j], "parseMessage", "ok") = 1 /\ ~RemediationFailed(j)) =>
         /\ NumOp(trace[j], "DeleteSQSMessage") = 1
         /\ errs[j] \in {"nil", "deleting sqs message"}
         /\ ~QueueDeleteFailed(j) => (errs[j] = "nil" /\ sqsMessages[j] \notin queue)

\* A step of one handler leaves every other handler where it was.
HandlersDisjoint ==
    (pc = "fanout" /\ pc' = "fanout") =>
        \A i, j \in DOMAIN handler :
            (i # j /\ (handler'[i] # handler[i] \/ trace'[i] # trace[i] \/ errs'[i] # errs[i]))
            => (handler'[j] = handler[j] /\ trace'[j] = trace[j] /\ errs'[j] = errs[j])

\* C30: the messages of one batch are handled independently: when the
\* fan-out of a cycle that was not cancelled has returned, a parse failure
\* or remediation failure of one message has not kept any other message of
\* the batch from being handled and, its own handling having succeeded,
\* deleted in the same cycle; and under every interleaving a step of one
\* handler changes nothing of another handler.
IndependentHandling ==
    /\ [](pc = "done" /\ ~cancelled =>
            \A i, j \in DOMAIN trace :
                (i # j /\ FailedMessage(i)) => HandledOnItsOwn(j))
    /\ [][HandlersDisjoint]_vars

IndependentHandlingWitness ==
    /\ pc = "done"
    /\ ~cancelled
    /\ \E i, j \in DOMAIN trace :
         /\ i < j
         /\ RemediationFailed(i)
         /\ sqsMessages[i] \in queue
         /\ NumCalls(trace[j], "parseMessage", "ok") = 1
         /\ NumCalls(trace[j], "Delete", "ok") = 1
         /\ NumCalls(trace[j], "DeleteSQSMessage", "ok") = 1
         /\ sqsMessages[j] \notin queue

\* handleMessage has returned for message i, a message of a kind other than
\* NoOp.
HandleMessageReturned(i) ==
    /\ handler[i].pc \in {"deleteMessage", "done"}
    /\ NumCalls(trace[i], "parseMessage", "ok") = 1
    /\ handler[i].msg.kind # NoOpKind

\* C31: for a message carrying several instance identifiers, remediation is
\* attempted for every identifier that has a NodeClaim in the index, also
\* after the remediation of an earlier identifier failed; the message's
\* error is set exactly when one of them failed, and the queue delete is
\* invoked for the message only if none failed.
RemediationAccumulates ==
    \A i \in DOMAIN trace :
        HandleMessageReturned(i) =>
            /\ \A k \in MatchedPositions(i) :
                 LET nc == cachedNodeClaims[nodeClaimInstanceIDMap[InstanceIDsOf(i)[k]]]
                 IN /\ NumOn(trace[i], "actionsPerformed", nc.name) = 1
                    /\ (actionForMessage(handler[i].msg) = CordonAndDrain
                        /\ ~nc.deletionTimestamp) => NumOn(trace[i], "Delete", nc.name) = 1
            /\ handler[i].err <=> RemediationFailed(i)
            /\ errs[i] = "handling message" <=> RemediationFailed(i)
            /\ RemediationFailed(i) =>
                 /\ handler[i].pc = "done"
                 /\ NumOp(trace[i], "DeleteSQSMessage") = 0
                 /\ sqsMessages[i] \in queue
            /\ (~RemediationFailed(i) /\ handler[i].pc = "done") =>
                 NumOp(trace[i], "DeleteSQSMessage") = 1

RemediationAccumulatesWitness ==
    \E i \in DOMAIN trace :
        /\ HandleMessageReturned(i)
        /\ InstanceIDsOf(i) = <<"i-1", "i-2">>
        /\ \E n, m \in DOMAIN trace[i] :
             /\ n < m
             /\ trace[i][n] = Call("Delete", "", "nc1", "error")
             /\ trace[i][m] = Call("Delete", "", "nc2", "ok")
        /\ NumOp(trace[i], "DeleteSQSMessage") = 0
        /\ errs[i] = "handling message"

\* The handler of message i has returned.
HandlerReturned(i) == handler[i].pc = "done"

\* C32 as stated: the message-latency histogram is observed exactly once for
\* each message whose remediation succeeded for all matched identifiers or
\* that had none, and is not observed for a message whose remediation
\* failed.
LatencyOnlyOnSuccess ==
    \A i \in DOMAIN trace :
        HandlerReturned(i) =>
            /\ (NumCalls(trace[i], "parseMessage", "ok") = 1 /\ ~RemediationFailed(i)) =>
                 NumOp(trace[i], "messageLatency") = 1
            /\ RemediationFailed(i) => NumOp(trace[i], "messageLatency") = 0

\* C32, amended: the message-latency histogram is observed exactly once for
\* each message that parsed to a kind other than NoOp, after the loop over
\* its instance identifiers and before the queue delete, whether its
\* remediation succeeded, failed or matched no NodeClaim; it is not observed
\* for a message that failed to parse or that parsed as NoOp.
LatencyOncePerActedMessage ==
    \A i \in DOMAIN trace :
        /\ NumOp(trace[i], "messageLatency") <= 1
        /\ handler[i].pc \in {"deleteMessage", "done"} =>
             (NumOp(trace[i], "messageLatency") = 1 <=>
                 (NumCalls(trace[i], "parseMessage", "ok") = 1
                  /\ handler[i].msg.kind # NoOpKind))
        /\ \A n \in DOMAIN trace[i] :
             trace[i][n].op = "messageLatency" =>
                 \A m \in DOMAIN trace[i] :
                     /\ trace[i][m].op \in RemediationOps => m < n
                     /\ trace[i][m].op = "DeleteSQSMessage" => m > n

LatencyOncePerActedMessageWitness ==
    /\ pc = "done"
    /\ \E i, j \in DOMAIN trace :
         /\ RemediationFailed(i)
         /\ NumOp(trace[i], "messageLatency") = 1
         /\ NumCalls(trace[j], "parseMessage", "ok") = 1
         /\ handler[j].msg.kind = NoOpKind
         /\ NumOp(trace[j], "messageLatency") = 0
         /\ NumCalls(trace[j], "DeleteSQSMessage", "ok") = 1

\* Every collaborator call made so far, those of earlier cycles included.
AllCalls == calls \o Flatten(trace)

\* C33: the deleted-messages counter is incremented exactly once for each
\* queue delete that succeeded and never for a queue delete that failed or
\* was not attempted: after any sequence of cycles it equals the number of
\* successful queue deletes, which is the number of messages that left the
\* queue.
DeletedCounterExact ==
    /\ deletedMessages = NumCalls(AllCalls, "DeleteSQSMessage", "ok")
    /\ deletedMessages = Len(bodies) - Cardinality(queue)

DeletedCounterExactWitness ==
    /\ pc = "done"
    /\ Deliveries = 2
    /\ NumCalls(AllCalls, "DeleteSQSMessage", "error") = 1
    /\ NumOp(AllCalls, "DeleteSQSMessage") = 3
    /\ deletedMessages = 2
    /\ queue = {}

\* C34: when two or more messages of the same batch reference the same
\* instance and each maps to CordonAndDrain, then under every interleaving
\* of their handlers at most one NodeClaim delete is issued for that
\* NodeClaim and the termination counter is incremented at most once for it
\* within the cycle.
SingleDeletePerNodeClaim ==
    \A i, j \in DOMAIN trace :
        (/\ i # j
         /\ actionForMessage(handler[i].msg) = CordonAndDrain
         /\ actionForMessage(handler[j].msg) = CordonAndDrain)
        => \A k \in MatchedPositions(i) : \A l \in MatchedPositions(j) :
             InstanceIDsOf(i)[k] = InstanceIDsOf(j)[l] =>
                 LET nc == cachedNodeClaims[nodeClaimInstanceIDMap[InstanceIDsOf(i)[k]]]
                 IN /\ NumOn(Flatten(trace), "Delete", nc.name) <= 1
                    /\ NumOn(Flatten(trace), "NodeClaimsTerminated", nc.name) <= 1

\* The queue delete of message i failed after its remediation had succeeded.
DeleteFailedAfterRemediation(i) ==
    /\ QueueDeleteFailed(i)
    /\ NumCalls(trace[i], "parseMessage", "ok") = 1
    /\ ~RemediationFailed(i)

\* The step in which a queue delete fails.
QueueDeleteFails ==
    \E i \in DOMAIN trace :
        /\ i \in DOMAIN trace'
        /\ trace'[i] = Append(trace[i], Call("DeleteSQSMessage", "", "", "error"))

\* C35: if the queue delete of a message fails after its remediation
\* succeeded, Reconcile returns a non-nil error, the deleted-messages
\* counter is not incremented, the message stays in the queue, and the
\* remediation already applied (NodeClaim delete, replacement creation,
\* cache mark) is not rolled back.
FailedQueueDeleteKeepsRemediation ==
    /\ [](\A i \in DOMAIN trace :
            DeleteFailedAfterRemediation(i) =>
                /\ errs[i] = "deleting sqs message"
                /\ pc = "done" => result \notin {"nil", "pending"}
                /\ sqsMessages[i] \in queue
                /\ deletedMessages = NumCalls(Flatten(trace), "DeleteSQSMessage", "ok")
                /\ \A n \in DOMAIN trace[i] :
                     LET c == trace[i][n]
                     IN /\ (c.op = "Delete" /\ c.res = "ok") => apiServer[c.on] # "live"
                        /\ c.op = "MarkUnavailable" =>
                             SpotOfferingOf(ClaimNamed(c.on)) \in unavailableOfferingsCache
                        /\ (c.op = "Create" /\ c.res = "ok") =>
                             \E m \in DOMAIN created :
                                 created[m] = createNodeClaim(ClaimNamed(c.on))
                /\ nodeClaimsTerminated = NumOp(Flatten(trace), "NodeClaimsTerminated"))
    /\ [][QueueDeleteFails =>
            UNCHANGED <<queue, deletedMessages, apiServer, created,
                        unavailableOfferingsCache, nodeClaimsTerminated>>]_vars

FailedQueueDeleteKeepsRemediationWitness ==
    /\ pc = "done"
    /\ result = "multierr"
    /\ \E i \in DOMAIN trace :
         /\ DeleteFailedAfterRemediation(i)
         /\ NumCalls(trace[i], "Delete", "ok") = 1
         /\ NumCalls(trace[i], "Create", "ok") = 1
         /\ NumOp(trace[i], "MarkUnavailable") = 1
         /\ Len(created) = 1
         /\ unavailableOfferingsCache # {}
         /\ nodeClaimsTerminated = 1
         /\ deletedMessages = 0

\* The listed NodeClaims whose provider id resolves to the instance id.
ListedFor(id) ==
    { j \in DOMAIN cachedNodeClaims :
        /\ ValidProviderID(cachedNodeClaims[j].status.providerID)
        /\ ParseInstanceID(cachedNodeClaims[j].status.providerID).id = id }

\* The last of them in listing order.
LastListedFor(id) == CHOOSE j \in ListedFor(id) : \A k \in ListedFor(id) : k <= j

NodeClaimsListed == \E n \in DOMAIN calls : calls[n] = Call("List", "NodeClaims", "", "ok")

\* The names of the NodeClaims a message for the given ids may act on.
RemediatedNames(ids) ==
    { cachedNodeClaims[LastListedFor(ids[k])].name :
        k \in {l \in DOMAIN ids : ListedFor(ids[l]) # {}} }

\* C36: if several NodeClaims of the listing resolve to the same instance
\* identifier, the index holds exactly one of them, the last in listing
\* order, and a message for that instance remediates only that NodeClaim
\* and leaves the others untouched.
DuplicatesLastWins ==
    /\ NodeClaimsListed =>
         \A id \in {"i-1", "i-2"} :
             IF ListedFor(id) = {} THEN id \notin DOMAIN nodeClaimInstanceIDMap
             ELSE /\ id \in DOMAIN nodeClaimInstanceIDMap
                  /\ nodeClaimInstanceIDMap[id] = LastListedFor(id)
    /\ \A i \in DOMAIN trace :
         /\ \A n \in DOMAIN trace[i] :
              trace[i][n].on # "" => trace[i][n].on \in RemediatedNames(InstanceIDsOf(i))
         /\ \A k \in MatchedPositions(i) :
              handler[i].pc = "done" =>
                  NumOn(trace[i], "actionsPerformed",
                        cachedNodeClaims[LastListedFor(InstanceIDsOf(i)[k])].name) = 1
    /\ \A j \in DOMAIN cachedNodeClaims :
         (\A i \in DOMAIN trace :
             cachedNodeClaims[j].name \notin RemediatedNames(InstanceIDsOf(i)))
         => apiServer[cachedNodeClaims[j].name] = "live"
    /\ \A m \in DOMAIN created :
         \E i \in DOMAIN trace : \E name \in RemediatedNames(InstanceIDsOf(i)) :
             created[m] = createNodeClaim(ClaimNamed(name))

DuplicatesLastWinsWitness ==
    /\ pc = "done"
    /\ Cardinality(ListedFor("i-1")) = 3
    /\ cachedNodeClaims[1].status.providerID # cachedNodeClaims[3].status.providerID
    /\ \E i \in DOMAIN trace :
         /\ NumCalls(trace[i], "Delete", "ok") = 1
         /\ NumOn(trace[i], "Delete", "nc3") = 1
         /\ NumCalls(trace[i], "Create", "ok") = 1
    /\ apiServer["nc1"] = "live"
    /\ apiServer["nc2"] = "live"
    /\ apiServer["nc3"] # "live"

\* A collaborator call without what names the NodeClaim and the Node: the
\* NodeClaim it is about and, for a notification, the Node's name.
WithoutNames(c) ==
    [op |-> c.op, arg |-> c.arg, res |-> IF c.op = "Publish" THEN "" ELSE c.res]

NamesErased(tr) == [n \in DOMAIN tr |-> WithoutNames(tr[n])]

\* How many replacements of the NodeClaim were created.
NumReplacements(name) ==
    Cardinality({m \in DOMAIN created : created[m] = createNodeClaim(ClaimNamed(name))})

\* C37: the Node index influences only notifications and logging. Of two
\* handlers given the same message for NodeClaims that are alike, the first
\* with a Node found for its instance and the second with none, the calls
\* differ only in the Node named by the notifications: as long as the calls
\* made so far returned the same results the next call is the same, and
\* after the same calls and results the handlers have the same error, have
\* both returned or both not, and have made the same queue-delete outcome
\* and the same cluster-state mutations.
NodeIndexOnlyNotifies ==
    Len(trace) = 2 =>
        /\ \A i \in 1..2 : \A n \in DOMAIN trace[i] :
             /\ trace[i][n].op = "Publish" => trace[i][n].res = IF i = 1 THEN "n1" ELSE ""
             /\ trace[i][n].on \in {"", cachedNodeClaims[i].name}
        /\ \A n \in DOMAIN trace[1] \cap DOMAIN trace[2] :
             (\A m \in 1..(n - 1) : WithoutNames(trace[1][m]) = WithoutNames(trace[2][m]))
             => /\ trace[1][n].op = trace[2][n].op
                /\ trace[1][n].arg = trace[2][n].arg
                /\ (trace[1][n].on = "") <=> (trace[2][n].on = "")
        /\ NamesErased(trace[1]) = NamesErased(trace[2]) =>
             /\ handler[1].err = handler[2].err
             /\ (handler[1].pc = "done") <=> (handler[2].pc = "done")
             /\ errs[1] = errs[2]
             /\ (sqsMessages[1] \in queue) <=> (sqsMessages[2] \in queue)
             /\ (apiServer["nc1"] = "live") <=> (apiServer["nc2"] = "live")
             /\ NumReplacements("nc1") = NumReplacements("nc2")

NodeIndexOnlyNotifiesWitness ==
    /\ pc = "done"
    /\ Len(trace) = 2
    /\ NamesErased(trace[1]) = NamesErased(trace[2])
    /\ NumCalls(trace[1], "Delete", "ok") = 1
    /\ NumCalls(trace[1], "Create", "ok") = 1
    /\ NumOp(trace[1], "MarkUnavailable") = 1
    /\ \E n \in DOMAIN trace[1] :
         /\ trace[1][n].op = "Publish"
         /\ trace[1][n].res = "n1"
         /\ trace[2][n].op = "Publish"
         /\ trace[2][n].res = ""
    /\ queue = {}

\* The interfaces of the default network card left after the reserved ENIs.
UsableInterfaces(req) ==
    req.info.networkCards[req.info.defaultNetworkCardIndex + 1].maximumNetworkInterfaces
        - req.reservedENIs

\* The ENI-limited pod density as the claims state it.
ENIDensity(req) ==
    IF UsableInterfaces(req) <= 0 THEN 0
    ELSE UsableInterfaces(req) * (req.info.ipv4AddressesPerInterface - 1) + 2

PodCapacityPrecedence ==
    "pods" \in DOMAIN quantities =>
        LET q == quantities["pods"].value
            count == IF request.maxPods # Nil THEN request.maxPods[1]
                     ELSE IF request.amiFamily.supportsENILimitedPodDensity
                     THEN ENIDensity(request)
                     ELSE 110
            perCore == FromPtr(request.podsPerCore) * FromPtr(request.info.defaultVCpus)
        IN /\ IF FromPtr(request.podsPerCore) > 0 /\ request.amiFamily.podsPerCoreEnabled
              THEN /\ q \in {count, perCore}
                   /\ q <= count
                   /\ q <= perCore
              ELSE q = count
           /\ q <= count

PodCapacityPrecedenceWitness ==
    /\ "pods" \in DOMAIN quantities
    /\ request.maxPods = Nil
    /\ request.amiFamily.supportsENILimitedPodDensity
    /\ request.amiFamily.podsPerCoreEnabled
    /\ request.podsPerCore = Ptr(1)
    /\ request.info.defaultVCpus = Ptr(2)
    /\ ENIDensity(request) = 8
    /\ quantities["pods"].value = 2

\* The handlers that take the step: those whose position, calls or slot of
\* errs the step changes.
Stepping ==
    {i \in DOMAIN handler :
        handler'[i] # handler[i] \/ trace'[i] # trace[i] \/ errs'[i] # errs[i]}

\* Handler j has, before this step, removed a message from the queue and
\* counted it.
HasDeletedMessage(j) == NumCalls(trace[j], "DeleteSQSMessage", "ok") > 0

\* Handler j has, before this step, counted a terminated NodeClaim.
HasCountedTermination(j) == NumOp(trace[j], "NodeClaimsTerminated") > 0

\* What Reconcile holds for the fan-out and the handlers only read: the
\* batch, the listed objects and the two correlation indexes.
ReadByHandlers ==
    <<sqsMessages, bodies, cachedNodeClaims, cachedNodes, nodeClaimInstanceIDMap,
      nodeInstanceIDMap, calls, result>>

\* The statement as the specification has it: a step of the fan-out writes
\* the slot of one handler only and leaves the indexes alone, and nothing
\* but the availability cache and the API server is written by a handler
\* after another handler wrote it.
OnlyCacheAndStoreShared ==
    [][(pc = "fanout" /\ pc' = "fanout") =>
          /\ UNCHANGED ReadByHandlers
          /\ Cardinality(Stepping) <= 1
          /\ \A i \in Stepping : \A j \in DOMAIN handler \ {i} :
               /\ (queue' # queue \/ deletedMessages' # deletedMessages)
                    => ~HasDeletedMessage(j)
               /\ nodeClaimsTerminated' # nodeClaimsTerminated
                    => ~HasCountedTermination(j)]_vars

\* C40: during the fan-out no two handlers write the same variable of
\* Reconcile: a step writes the position, the calls and the slot of errs of
\* one handler only, and leaves the batch, the listed objects and the two
\* correlation indexes as they were. What more than one handler mutates is
\* held by the collaborators: the availability cache and the API server,
\* and also the queue and the deletedMessages and NodeClaimsTerminated
\* counters, each written only by the handler whose call the step records.
HandlersShareOnlyCollaborators ==
    [][(pc = "fanout" /\ pc' = "fanout") =>
          /\ UNCHANGED ReadByHandlers
          /\ Cardinality(Stepping) <= 1
          /\ (<<effects>>' # <<effects>>) => Stepping # {}
          /\ \A i \in Stepping :
               /\ queue' # queue =>
                    /\ queue' = queue \ {sqsMessages[i]}
                    /\ trace'[i] = Append(trace[i], Call("DeleteSQSMessage", "", "", "ok"))
               /\ deletedMessages' # deletedMessages =>
                    /\ deletedMessages' = deletedMessages + 1
                    /\ trace'[i] = Append(trace[i], Call("DeleteSQSMessage", "", "", "ok"))
               /\ nodeClaimsTerminated' # nodeClaimsTerminated =>
                    /\ nodeClaimsTerminated' = nodeClaimsTerminated + 1
                    /\ NumOp(trace'[i], "NodeClaimsTerminated")
                         = NumOp(trace[i], "NodeClaimsTerminated") + 1
               /\ apiServer' # apiServer =>
                    NumCalls(trace'[i], "Delete", "ok") = NumCalls(trace[i], "Delete", "ok") + 1
               /\ created' # created =>
                    NumCalls(trace'[i], "Create", "ok") = NumCalls(trace[i], "Create", "ok") + 1
               /\ unavailableOfferingsCache' # unavailableOfferingsCache =>
                    NumOp(trace'[i], "MarkUnavailable")
                      = NumOp(trace[i], "MarkUnavailable") + 1]_vars

HandlersShareOnlyCollaboratorsWitness ==
    /\ pc = "done"
    /\ deletedMessages = 2
    /\ nodeClaimsTerminated = 2
    /\ Cardinality(unavailableOfferingsCache) = 2
    /\ \E i, j \in DOMAIN trace :
         /\ i # j
         /\ \A k \in {i, j} :
              /\ errs[k] = "nil"
              /\ NumOp(trace[k], "MarkUnavailable") = 1
              /\ NumCalls(trace[k], "Delete", "ok") = 1
              /\ NumCalls(trace[k], "DeleteSQSMessage", "ok") = 1

====
